---- MODULE Spec2Model ----
(***************************************************************************)
(* OTP based e-mail verification and password reset of backend-training.  *)
(*                                                                         *)
(* The state is the two MySQL tables (users, otps), the message last      *)
(* handed to the mail transport, the clock, the process environment, and   *)
(* one record per in-flight HTTP request.  Every handler is cut at its     *)
(* awaited database / transport calls: one step per awaited statement,     *)
(* the synchronous code that follows an await belongs to the same step.    *)
(***************************************************************************)
EXTENDS Integers, Sequences, FiniteSets, TLC

(***************************************************************************)
(* Bounds of the model.                                                    *)
(***************************************************************************)
MaxTicks == 1       \* number of times the clock advances
MaxId == 2          \* AUTO_INCREMENT ids handed out by the otps table
MaxClock == 11      \* the latest reading of the clock in the specification with fairness
MaxUserId == 5      \* ids the INSERT into users may take
MaxOver == 1        \* requests of an address over a limiter's max in one window
MaxGuest == 1       \* requests of the second address in one window of a limiter
MaxSalt == 2        \* salts bcrypt.hash draws from
MaxHits == 4        \* requests counted by the rate limiter at a time
MaxWindowTicks == 1 \* clock advances of the rate-limiter specification

\* request slots: the requests that may be in flight at the same time
Procs == {1, 2}

(***************************************************************************)
(* Strings that the code inspects character by character (e-mail           *)
(* addresses) are sequences of one-character strings; codes are sequences  *)
(* of digits.                                                              *)
(***************************************************************************)
janeEmail == <<"j", "@", "x", ".", "y">>
janeUpper == <<"J", "@", "x", ".", "y">>
bobEmail == <<"b", "@", "x", ".", "y">>
johnEmail == <<"y", "@", "x", ".", "y">>
badEmail == <<"j", "@", "x">>
noEmail == <<>>

EmailInputs == {janeEmail, janeUpper, bobEmail, badEmail, noEmail}

\* usernames: the one of the seeded account, its spelling in another case and
\* with a leading space, a free one, one of fewer than 3 characters, one of
\* three spaces, none
janeName == <<"j", "x", "y">>
johnName == <<"y", "x", "y">>
janePadded == <<" ", "j", "x", "y">>
bobName == <<"b", "x", "y">>
noName == <<>>

isWhitespace(c) == c = " "

toLowerChar(c) ==
    CASE c = "J" -> "j"
      [] c = "B" -> "b"
      [] c = "X" -> "x"
      [] c = "Y" -> "y"
      [] OTHER -> c

toLowerCase(s) == [i \in 1..Len(s) |-> toLowerChar(s[i])]

RECURSIVE trimStart(_)
trimStart(s) ==
    IF s # <<>> /\ isWhitespace(Head(s)) THEN trimStart(Tail(s)) ELSE s

RECURSIVE trimEnd(_)
trimEnd(s) ==
    IF s # <<>> /\ isWhitespace(s[Len(s)])
    THEN trimEnd(SubSeq(s, 1, Len(s) - 1))
    ELSE s

trim(s) == trimEnd(trimStart(s))

normalizeEmail(s) == toLowerCase(trim(s))

\* [^\s@]+
plainRun(s) ==
    /\ Len(s) > 0
    /\ \A i \in 1..Len(s) : ~isWhitespace(s[i]) /\ s[i] # "@"

\* /^[^\s@]+@[^\s@]+\.[^\s@]+$/
emailRegexTest(s) ==
    \E i \in 1..Len(s) : \E j \in 1..Len(s) :
        /\ i < j
        /\ s[i] = "@"
        /\ s[j] = "."
        /\ plainRun(SubSeq(s, 1, i - 1))
        /\ plainRun(SubSeq(s, i + 1, j - 1))
        /\ plainRun(SubSeq(s, j + 1, Len(s)))

\* Comparison of two VARCHAR values under the tables' collation
\* utf8mb4_unicode_ci: case-insensitive, trailing spaces ignored.
sqlEq(a, b) == toLowerCase(trimEnd(a)) = toLowerCase(trimEnd(b))

(***************************************************************************)
(* Environment and code generation.                                        *)
(***************************************************************************)
Unset == -1000      \* the variable is absent from process.env (parseInt gives NaN)

\* parseInt(process.env.X) || dflt : NaN and 0 are falsy
parseIntOr(v, dflt) == IF v = Unset \/ v = 0 THEN dflt ELSE v

\* The draws of crypto.randomInt(0, 10) of one call: position -> digit.
\* The model draws the whole stream of a call from this set.
RandStreams == {[i \in 1..10 |-> 0], [i \in 1..10 |-> 1]}

RECURSIVE generateLoop(_, _, _, _)
generateLoop(otp, i, length, draws) ==
    IF i < length
    THEN generateLoop(Append(otp, draws[i + 1]), i + 1, length, draws)
    ELSE otp

generateOTP(length, draws) == generateLoop(<<>>, 0, length, draws)

(***************************************************************************)
(* The otps table (otpModel.js).  A row is                                 *)
(*   [id, email, otp_code, otp_type, expires_at, used, created_at].        *)
(***************************************************************************)

NoRow == [id |-> 0]

createOTP(table, id, email, otpCode, otpType, expiresAt, clock) ==
    table \cup {[id |-> id, email |-> email, otp_code |-> otpCode,
                 otp_type |-> otpType, expires_at |-> expiresAt,
                 used |-> FALSE, created_at |-> clock]}

\* sensitivity variant for C5: the lookup without "expires_at > NOW()"
validRowsAnyTime(table, email, otpCode, otpType, clock) ==
    {r \in table : /\ sqlEq(r.email, email)
                   /\ r.otp_code = otpCode
                   /\ r.otp_type = otpType
                   /\ r.used = FALSE}

\* sensitivity variant for C6: the lookup without "otp_type = ?"
validRowsAnyType(table, email, otpCode, otpType, clock) ==
    {r \in table : /\ sqlEq(r.email, email)
                   /\ r.otp_code = otpCode
                   /\ r.expires_at > clock
                   /\ r.used = FALSE}

\* sensitivity variant for C22: the lookup without "used = FALSE"
validRowsAnyUse(table, email, otpCode, otpType, clock) ==
    {r \in table : /\ sqlEq(r.email, email)
                   /\ r.otp_code = otpCode
                   /\ r.otp_type = otpType
                   /\ r.expires_at > clock}

\* sensitivity variant for C29: the lookup without "email = ?"
validRowsAnyEmail(table, email, otpCode, otpType, clock) ==
    {r \in table : /\ r.otp_code = otpCode
                   /\ r.otp_type = otpType
                   /\ r.expires_at > clock
                   /\ r.used = FALSE}

\* rows matched by the WHERE clause of getValidOTP
validRows(table, email, otpCode, otpType, clock) ==
    {r \in table : /\ sqlEq(r.email, email)
                   /\ r.otp_code = otpCode
                   /\ r.otp_type = otpType
                   /\ r.expires_at > clock
                   /\ r.used = FALSE}

\* ORDER BY created_at DESC LIMIT 1: the rows the query may return
\* (rows with equal created_at come back in an order MySQL does not fix)
getValidOTP(table, email, otpCode, otpType, clock) ==
    LET m == validRows(table, email, otpCode, otpType, clock)
    IN  {r \in m : \A q \in m : q.created_at <= r.created_at}

\* sensitivity variant for C26: an update that flips the flag
markOTPAsUsedFlip(table, id) ==
    {IF r.id = id THEN [r EXCEPT !.used = ~r.used] ELSE r : r \in table}

\* UPDATE otps SET used = TRUE WHERE id = ?
markOTPAsUsed(table, id) ==
    {IF r.id = id THEN [r EXCEPT !.used = TRUE] ELSE r : r \in table}

\* DELETE FROM otps WHERE expires_at < NOW(): exported by the model file and
\* called by no route, service or timer of the program
deleteExpiredOTPs(table, clock) ==
    {r \in table : ~(r.expires_at < clock)}

\* sensitivity variant for C1: a delete that spares the rows not yet used
deleteUsedOTPsByEmail(table, email, otpType) ==
    {r \in table : ~(sqlEq(r.email, email) /\ r.otp_type = otpType /\ r.used)}

\* sensitivity variant for C27: the delete without "otp_type = ?"
deleteOTPsByEmailAnyType(table, email, otpType) ==
    {r \in table : ~sqlEq(r.email, email)}

\* DELETE FROM otps WHERE email = ? AND otp_type = ?
deleteOTPsByEmail(table, email, otpType) ==
    {r \in table : ~(sqlEq(r.email, email) /\ r.otp_type = otpType)}

\* outstanding rows of an (email, purpose) pair: unused and unexpired
Outstanding(table, email, otpType, clock) ==
    {r \in table : /\ sqlEq(r.email, email)
                   /\ r.otp_type = otpType
                   /\ r.used = FALSE
                   /\ r.expires_at > clock}

(***************************************************************************)
(* The users table (authModel.js, userModel.js).                           *)
(***************************************************************************)
NoUser == [id |-> 0]

\* what getUserByEmail throws, before any statement is sent, for an empty email
EmailRequired == [id |-> 0, thrown |-> <<"Email is required">>]

\* the value is a row of users
isRow(user) == user # NoUser /\ user # EmailRequired

\* bcrypt.hash(password, 10): the hash carries the salt bcrypt drew for the call
bcryptHash(password, salt) == <<"bcrypt", salt, password>>

\* the salts bcrypt.hash may draw for a hash that replaces the stored one: a
\* salt of 128 random bits is not the salt of the hash in the column
genSalt(table, email) ==
    {salt \in 1..MaxSalt :
        \A u \in table : sqlEq(u.email, email) =>
                             (Len(u.password) # 3 \/ u.password[2] # salt)}

\* SELECT * FROM users WHERE email = ?  (email is UNIQUE)
getUserByEmail(table, email) ==
    IF email = noEmail THEN EmailRequired
    ELSE IF \E u \in table : sqlEq(u.email, email)
    THEN CHOOSE u \in table : sqlEq(u.email, email)
    ELSE NoUser

\* UPDATE users SET password = ? WHERE email = ?
updatePassword(table, email, hashedPassword) ==
    {IF sqlEq(u.email, email) THEN [u EXCEPT !.password = hashedPassword] ELSE u
        : u \in table}

\* UPDATE users SET email_verified = TRUE WHERE email = ?
verifyUserEmail(table, email) ==
    {IF sqlEq(u.email, email) THEN [u EXCEPT !.email_verified = TRUE] ELSE u
        : u \in table}

\* SELECT * FROM users WHERE username = ?  (username is UNIQUE)
getUserByUsername(table, username) ==
    IF \E u \in table : sqlEq(u.username, username)
    THEN CHOOSE u \in table : sqlEq(u.username, username)
    ELSE NoUser

\* the UNIQUE key of users that a row with this username and email violates
duplicateKey(table, username, email) ==
    IF \E u \in table : sqlEq(u.username, username) THEN "username"
    ELSE IF \E u \in table : sqlEq(u.email, email) THEN "email"
    ELSE "none"

\* createUser throws, before any statement is sent, when a field is empty
createUserRequired(username, email, password) ==
    username = noName \/ email = noEmail \/ password = ""

\* INSERT INTO users (username, email, password, role, email_verified)
\* VALUES (?, ?, ?, ?, FALSE): the row gets the value of the AUTO_INCREMENT
\* counter of users as its id
createUser(table, id, username, email, password) ==
    IF createUserRequired(username, email, password) THEN table
    ELSE table \cup {[id |-> id, username |-> username, email |-> email,
                      password |-> password, email_verified |-> FALSE]}

affectedRows(table, email) == Cardinality({u \in table : sqlEq(u.email, email)})

(***************************************************************************)
(* Error messages.  A message is the sequence of the literals that were    *)
(* concatenated to build it; includes() is String.prototype.includes over  *)
(* the literals that occur in the code.                                    *)
(***************************************************************************)
\* The message of a rejected pool.execute is whatever the driver or the server
\* reports: an unspecific one, and the text of MySQL error 1862.
DbPasswordExpired == <<"Your password has expired. To log in you must change it using a client that supports expired passwords.">>
DbErrorMessages == {<<"<storage error>">>, DbPasswordExpired}
TransportErrorMessage == <<"<transport error>">>

\* ER_DUP_ENTRY of the INSERT into users: the message names the violated key
DbDuplicateEntry(key) ==
    IF key = "username"
    THEN <<"Duplicate entry for key 'users.username'">>
    ELSE <<"Duplicate entry for key 'users.email'">>

literalIncludes(part, needle) ==
    \/ part = needle
    \/ <<part, needle>> \in {
         <<"At least one field (username or email) is required for update", "email">>,
         <<"At least one field (username or email) is required for update", "username">>,
         <<"Duplicate entry for key 'users.email'", "email">>,
         <<"Duplicate entry for key 'users.email'", "Duplicate entry">>,
         <<"Duplicate entry for key 'users.username'", "username">>,
         <<"Duplicate entry for key 'users.username'", "Duplicate entry">>,
         <<"Email, OTP, and new password are required", "password">>,
         <<"Failed to process forgot password request", "password">>,
         <<"Failed to reset password", "password">>,
         <<"Failed to send email: ", "email">>,
         <<"Failed to send password reset OTP: ", "password">>,
         <<"Failed to send password reset email: ", "email">>,
         <<"Failed to send password reset email: ", "password">>,
         <<"Failed to update password", "password">>,
         <<"Failed to verify email", "email">>,
         <<"If an account with this email exists, a password reset code has been sent.", "email">>,
         <<"If an account with this email exists, a password reset code has been sent.", "password">>,
         <<"Invalid credentials", "Invalid">>,
         <<"Invalid email", "Invalid">>,
         <<"Invalid email", "email">>,
         <<"Invalid email format", "Invalid email">>,
         <<"Invalid email format", "Invalid">>,
         <<"Invalid email format", "email">>,
         <<"Invalid or expired OTP", "Invalid">>,
         <<"Invalid or expired OTP", "expired">>,
         <<"Invalid user ID", "Invalid">>,
         <<"Password must be at least 6 characters long", "Password must be">>,
         <<"Password reset code sent to your email. Please check your inbox.", "email">>,
         <<"Password reset successfully. You can now login with your new password.", "password">>,
         <<"Please verify your email before logging in. Check your email for verification code.", "email">>,
         <<"User registered successfully. Please check your email for verification.", "email">>,
         <<"User with this email already exists", "email">>,
         <<"User with this email already exists", "already exists">>,
         <<"User with this username already exists", "username">>,
         <<"User with this username already exists", "already exists">>,
         <<"Username and email are required", "email">>,
         <<"Username or email already exists", "email">>,
         <<"Username or email already exists", "already exists">>,
         <<"Username, email, and password are required", "email">>,
         <<"Username, email, and password are required", "password">>,
         <<"Verification OTP sent to email", "email">>,
         <<DbPasswordExpired[1], "expired">>,
         <<DbPasswordExpired[1], "password">>}

includes(message, needle) ==
    \E i \in 1..Len(message) : literalIncludes(message[i], needle)

(***************************************************************************)
(* State.                                                                  *)
(***************************************************************************)
VARIABLES
    users,      \* rows of the users table
    otps,       \* rows of the otps table
    nextId,     \* AUTO_INCREMENT counter of otps
    nextUserId, \* AUTO_INCREMENT counter of users
    sentMail,   \* the message the last step handed to the mail transport, if any
    now,        \* the clock (minutes): NOW() and new Date()
    ticks,      \* number of clock advances so far
    env,        \* process.env: OTP_LENGTH, OTP_EXPIRES_IN, ADMIN_EMAIL, ADMIN_PASSWORD
    pc,         \* per request slot: the awaited call it is suspended at
    loc,        \* per request slot: the handler's local variables
    lastResp,   \* the HTTP response written by the last step, if any
    limiter,    \* the stores of the limiters: per limiter and client address, hits and resetTime
    routeLog    \* history: the same count kept apart for every group of routes

vars == <<users, nextUserId, otps, nextId, sentMail, now, ticks, env, pc, loc, lastResp,
          limiter, routeLog>>

(***************************************************************************)
(* rateLimiter.js: loginLimiter, signupLimiter and otpLimiter, each one     *)
(* instance of express-rate-limit with its own memory store, keyed by the  *)
(* client address.  The first request of a key opens a window of windowMs; *)
(* a request that comes when the window has passed opens a new one.        *)
(***************************************************************************)
IPs == {1, 2}
windowMinutes == 15     \* windowMs: 15 * 60 * 1000
otpLimiterMax == 3      \* max: 3

\* the routes of the OTP workflow; the two routes under /otp are one group
RouteGroups == {"/auth/forgot-password", "/auth/reset-password", "/otp"}

NoHits == [hits |-> 0, resetTime |-> 0]

\* the limiters of rateLimiter.js that authRoutes.js mounts, their max and
\* their windowMs in minutes
Limiters == {"otpLimiter", "loginLimiter", "signupLimiter"}
limiterMax(name) == IF name = "loginLimiter" THEN 5 ELSE otpLimiterMax

\* the store counts a request of key at time clock, in windows of window minutes
hit(store, key, clock, window) ==
    [store EXCEPT ![key] =
        IF @.hits = 0 \/ @.resetTime <= clock
        THEN [hits |-> 1, resetTime |-> clock + window]
        ELSE [@ EXCEPT !.hits = @ + 1]]

\* the store forgets the keys whose window has passed at time clock
clearExpired(store, clock) ==
    [key \in DOMAIN store |->
        IF store[key].resetTime <= clock THEN NoHits ELSE store[key]]

NoMail == [kind |-> "none"]

NoCode == <<>>
PasswordInputs == {"newpass1", "short"}

otpLength == parseIntOr(env.OTP_LENGTH, 6)
expiresInMinutes == parseIntOr(env.OTP_EXPIRES_IN, 10)

\* codes a client may present: every code the generator can produce, and one it cannot
CodeInputs == {generateOTP(otpLength, d) : d \in RandStreams} \cup {<<9, 9>>}

NoResp == [status |-> 0]

IdleLoc == [op |-> "none", email |-> noEmail, otp |-> NoCode, newPassword |-> "",
            svcEmail |-> noEmail, otpCode |-> NoCode, expiresIn |-> 0,
            expiresAt |-> 0, deleted |-> {}, rec |-> NoRow, username |-> noName,
            password |-> "", newUser |-> NoUser, userId |-> 0, user |-> NoUser]

\* the password column of the rows the schema script inserts: a placeholder of
\* 61 characters, one more than a bcrypt hash has, that is the hash of no password
seedPassword == <<"$2b$10$rZ8qZ1YxYBYxYJ1YxYBYxO7d9z8qZ1YxYBYxYJ1YxYBYxO7d9z8qZ1">>

\* the row of jane_smith inserted by the schema script: email not verified
seedUsers == {[id |-> 3, username |-> janeName, email |-> janeEmail,
               password |-> seedPassword, email_verified |-> FALSE]}

\* the schema script inserts three rows: the counter of users stands at 4
firstUserId == 4

\* the environment of a deployment that sets the admin's credentials and
\* leaves the OTP settings to their defaults
defaultEnv == [OTP_LENGTH |-> Unset, OTP_EXPIRES_IN |-> Unset,
               ADMIN_EMAIL |-> <<"a", "@", "x", ".", "y">>,
               ADMIN_PASSWORD |-> "AdminPassword123!"]

Init ==
    /\ users = seedUsers
    /\ otps = {}
    /\ nextId = 1
    /\ nextUserId = firstUserId
    /\ sentMail = NoMail
    /\ now = 0
    /\ ticks = 0
    /\ env \in {[e EXCEPT !.OTP_LENGTH = l[1], !.OTP_EXPIRES_IN = l[2]] :
                   l \in {<<Unset, Unset>>, <<2, 0>>, <<2, 1>>}, e \in {defaultEnv}}
    /\ pc = [p \in Procs |-> "idle"]
    /\ loc = [p \in Procs |-> IdleLoc]
    /\ lastResp = NoResp
    /\ limiter = [k \in Limiters \X IPs |-> NoHits]
    /\ routeLog = [k \in IPs \X RouteGroups |-> NoHits]

(***************************************************************************)
(* Responses of the controllers.                                           *)
(***************************************************************************)
ok(status, message) == [status |-> status, success |-> TRUE, message |-> message]
fail(status, error) == [status |-> status, success |-> FALSE, error |-> error]

\* the answer of a limiter to a request over its limit
tooMany(name) ==
    CASE name = "otpLimiter" ->
            fail(429, <<"Too many OTP requests from this IP, please try again after 15 minutes">>)
      [] name = "loginLimiter" ->
            fail(429, <<"Too many login attempts from this IP, please try again after 15 minutes">>)
      [] name = "signupLimiter" ->
            fail(429, <<"Too many accounts created from this IP, please try again after an hour">>)

\* catch block of forgotPasswordController
forgotPasswordCatch(message) ==
    IF includes(message, "Invalid email")
    THEN fail(400, message)
    ELSE [status |-> 500, success |-> FALSE,
          error |-> <<"Failed to process forgot password request">>,
          message |-> message]

\* catch block of resetPasswordController
resetPasswordCatch(message) ==
    IF includes(message, "Invalid") \/ includes(message, "expired")
    THEN fail(400, message)
    ELSE IF includes(message, "User not found")
    THEN fail(404, message)
    ELSE IF includes(message, "Password must be")
    THEN fail(400, message)
    ELSE [status |-> 500, success |-> FALSE,
          error |-> <<"Failed to reset password">>, message |-> message]

\* catch block of sendVerificationOTP
sendVerificationCatch(message) == fail(500, <<"Failed to send verification OTP">>)

\* catch block of verifyEmail
verifyEmailCatch(message) ==
    IF message = <<"Invalid or expired OTP">>
    THEN fail(400, <<"Invalid or expired OTP">>)
    ELSE fail(500, <<"Failed to verify email">>)

\* catch block of signup
signupCatch(message) ==
    IF includes(message, "email") THEN fail(400, message)
    ELSE IF includes(message, "username") THEN fail(400, message)
    ELSE IF includes(message, "password") THEN fail(400, message)
    ELSE IF includes(message, "already exists") THEN fail(409, message)
    ELSE [status |-> 500, success |-> FALSE,
          error |-> <<"Failed to Register the user">>, message |-> message]

catch(op, message) ==
    CASE op = "forgotPassword" -> forgotPasswordCatch(message)
      [] op = "signup" -> signupCatch(message)
      [] op = "resetPassword" -> resetPasswordCatch(message)
      [] op = "sendVerificationOTP" -> sendVerificationCatch(message)
      [] op = "verifyEmail" -> verifyEmailCatch(message)

\* the response r, tagged with the endpoint that wrote it
sent(p, op, r) == r @@ [op |-> op]

\* the handler of slot p writes response r and ends
Respond(p, r) ==
    /\ pc' = [pc EXCEPT ![p] = "idle"]
    /\ loc' = [loc EXCEPT ![p] = IdleLoc]
    /\ lastResp' = sent(p, loc[p].op, r)

\* the request of slot p is answered before its first await
Reject(p, op, r) ==
    /\ pc' = pc
    /\ loc' = loc
    /\ lastResp' = sent(p, op, r)
    /\ sentMail' = NoMail

\* an error thrown inside the handler of slot p reaches the controller's catch
Throw(p, message) ==
    /\ Respond(p, catch(loc[p].op, message))
    /\ sentMail' = NoMail

\* slot p stays suspended, at label l with locals v
Goto(p, l, v) ==
    /\ pc' = [pc EXCEPT ![p] = l]
    /\ loc' = [loc EXCEPT ![p] = v]
    /\ lastResp' = NoResp
    /\ sentMail' = NoMail

\* an awaited storage call of slot p rejects: nothing is written
StorageFault(p, message) ==
    /\ Throw(p, message)
    /\ UNCHANGED <<users, nextUserId, otps, nextId, now, ticks, env>>


\* the users table hands out ids up to MaxUserId: the sign-ups that may still
\* send their INSERT into users are counted
CanRegister ==
    nextUserId + Cardinality({q \in Procs : pc[q] \in {"ru_getEmail", "ru_getName", "ru_create"}})
       <= MaxUserId

\* the otps table hands out ids up to MaxId: the requests that may still
\* insert an otps row are counted
CanIssue ==
    nextId + Cardinality({q \in Procs : pc[q] \in
                             {"fp_getUser", "sv_getUser", "pr_delete", "pr_insert",
                              "ev_delete", "ev_insert", "ru_getEmail", "ru_getName",
                              "ru_create", "ru_delete", "ru_insert"}})
       <= MaxId

(***************************************************************************)
(* otpService.js: issue.  The three awaited calls of sendPasswordResetOTP  *)
(* and sendEmailVerificationOTP; the code and expiresAt were computed      *)
(* before the first of them.  pre is the label prefix of the function,     *)
(* wrap the literal its catch block prepends.                              *)
(***************************************************************************)
\* the synchronous head of the issue functions: generate the code, compute expiresAt
issueLocals(v, email, draws) ==
    [v EXCEPT !.svcEmail = email,
              !.otpCode = generateOTP(otpLength, draws),
              !.expiresIn = expiresInMinutes,
              !.expiresAt = now + expiresInMinutes]

issueDelete(p, pre, otpType, wrap) ==
    /\ pc[p] = pre \o "_delete"
    /\ \/ /\ otps' = deleteOTPsByEmail(otps, loc[p].svcEmail, otpType)
          /\ Goto(p, pre \o "_insert",
                  [loc[p] EXCEPT !.deleted = {r.otp_code : r \in otps \ otps'}])
          /\ UNCHANGED <<users, nextUserId, nextId, now, ticks, env>>
       \/ (\E m \in DbErrorMessages : StorageFault(p, <<wrap>> \o m))

issueInsert(p, pre, otpType, wrap) ==
    /\ pc[p] = pre \o "_insert"
    /\ \/ /\ otps' = createOTP(otps, nextId, loc[p].svcEmail, loc[p].otpCode,
                               otpType, loc[p].expiresAt, now)
          /\ nextId' = nextId + 1
          /\ Goto(p, pre \o "_send", loc[p])
          /\ UNCHANGED <<users, nextUserId, now, ticks, env>>
       \/ (\E m \in DbErrorMessages : StorageFault(p, <<wrap>> \o m))

\* the response of the caller once the issue function has returned
issueReturn(p) ==
    CASE loc[p].op = "forgotPassword" ->
            ok(200, "Password reset code sent to your email. Please check your inbox.")
      [] loc[p].op = "sendVerificationOTP" ->
            ok(200, "Verification OTP sent to email")
                @@ [data |-> [email |-> loc[p].email, expiresIn |-> loc[p].expiresIn]]

\* sensitivity variant for C12: an issue function that takes its record back
\* when the dispatch fails
issueSendRollback(p, pre, wrap, mail, mailWrap) ==
    /\ pc[p] = pre \o "_send"
    /\ \/ /\ sentMail' = [kind |-> mail, to |-> loc[p].svcEmail, otp |-> loc[p].otpCode]
          /\ Respond(p, issueReturn(p))
          /\ otps' = otps
       \/ /\ Throw(p, <<wrap, mailWrap>> \o TransportErrorMessage)
          /\ otps' = {r \in otps : ~(sqlEq(r.email, loc[p].svcEmail)
                                       /\ r.otp_code = loc[p].otpCode)}
    /\ UNCHANGED <<users, nextUserId, nextId, now, ticks, env>>

issueSend(p, pre, wrap, mail, mailWrap) ==
    /\ pc[p] = pre \o "_send"
    /\ \/ /\ sentMail' = [kind |-> mail, to |-> loc[p].svcEmail, otp |-> loc[p].otpCode]
          /\ Respond(p, issueReturn(p))
       \/ Throw(p, <<wrap, mailWrap>> \o TransportErrorMessage)
    /\ UNCHANGED <<users, nextUserId, otps, nextId, now, ticks, env>>

sendPasswordResetOTP(p) ==
    \/ issueDelete(p, "pr", "password_reset", "Failed to send password reset OTP: ")
    \/ issueInsert(p, "pr", "password_reset", "Failed to send password reset OTP: ")
    \/ issueSend(p, "pr", "Failed to send password reset OTP: ",
                 "sendPasswordResetEmail", "Failed to send password reset email: ")

sendEmailVerificationOTP(p) ==
    \/ issueDelete(p, "ev", "email_verification", "Failed to send OTP: ")
    \/ issueInsert(p, "ev", "email_verification", "Failed to send OTP: ")
    \/ issueSend(p, "ev", "Failed to send OTP: ",
                 "sendOTPEmail", "Failed to send email: ")

(***************************************************************************)
(* otpService.js: verify.  getValidOTP, then markOTPAsUsed on the id of    *)
(* the row that came back.  next is the label the caller continues at.     *)
(***************************************************************************)
\* sensitivity variant for C15: a verify function that reports an already used
\* code with a message of its own
verifyGetTellsUsed(p, pre, otpType) ==
    /\ pc[p] = pre \o "_get"
    /\ \/ /\ getValidOTP(otps, loc[p].svcEmail, loc[p].otp, otpType, now) = {}
          /\ IF \E r \in otps : /\ sqlEq(r.email, loc[p].svcEmail)
                                 /\ r.otp_code = loc[p].otp
                                 /\ r.otp_type = otpType
                                 /\ r.used
             THEN Throw(p, <<"Invalid or expired OTP", ": already used">>)
             ELSE Throw(p, <<"Invalid or expired OTP">>)
          /\ UNCHANGED <<users, nextUserId, otps, nextId, now, ticks, env>>
       \/ /\ \E r \in getValidOTP(otps, loc[p].svcEmail, loc[p].otp, otpType, now) :
                Goto(p, pre \o "_mark", [loc[p] EXCEPT !.rec = [id |-> r.id]])
          /\ UNCHANGED <<users, nextUserId, otps, nextId, now, ticks, env>>
       \/ (\E m \in DbErrorMessages : StorageFault(p, m))

\* sensitivity variant for C14: a verify function that drops the records of the
\* pair when the code presented does not match
verifyGetBurns(p, pre, otpType) ==
    /\ pc[p] = pre \o "_get"
    /\ \/ /\ getValidOTP(otps, loc[p].svcEmail, loc[p].otp, otpType, now) = {}
          /\ Throw(p, <<"Invalid or expired OTP">>)
          /\ otps' = deleteOTPsByEmail(otps, loc[p].svcEmail, otpType)
          /\ UNCHANGED <<users, nextUserId, nextId, now, ticks, env>>
       \/ /\ \E r \in getValidOTP(otps, loc[p].svcEmail, loc[p].otp, otpType, now) :
                Goto(p, pre \o "_mark", [loc[p] EXCEPT !.rec = [id |-> r.id]])
          /\ UNCHANGED <<users, nextUserId, otps, nextId, now, ticks, env>>
       \/ (\E m \in DbErrorMessages : StorageFault(p, m))

verifyGet(p, pre, otpType) ==
    /\ pc[p] = pre \o "_get"
    /\ \/ /\ getValidOTP(otps, loc[p].svcEmail, loc[p].otp, otpType, now) = {}
          /\ Throw(p, <<"Invalid or expired OTP">>)
          /\ UNCHANGED <<users, nextUserId, otps, nextId, now, ticks, env>>
       \/ /\ \E r \in getValidOTP(otps, loc[p].svcEmail, loc[p].otp, otpType, now) :
                Goto(p, pre \o "_mark", [loc[p] EXCEPT !.rec = [id |-> r.id]])
          /\ UNCHANGED <<users, nextUserId, otps, nextId, now, ticks, env>>
       \/ (\E m \in DbErrorMessages : StorageFault(p, m))

verifyMark(p, pre, next) ==
    /\ pc[p] = pre \o "_mark"
    /\ \/ /\ otps' = markOTPAsUsed(otps, loc[p].rec.id)
          /\ Goto(p, next, loc[p])
          /\ UNCHANGED <<users, nextUserId, nextId, now, ticks, env>>
       \/ (\E m \in DbErrorMessages : StorageFault(p, m))

verifyPasswordResetOTP(p) ==
    \/ verifyGet(p, "vp", "password_reset")
    \/ verifyMark(p, "vp", "rp_update")

verifyEmailOTP(p) ==
    \/ verifyGet(p, "ve", "email_verification")
    \/ verifyMark(p, "ve", "vm_update")

(***************************************************************************)
(* POST /auth/forgot-password                                              *)
(***************************************************************************)
\* the request arrives: forgotPasswordController and forgotPassword up to the
\* first await; every later use of email is email.trim().toLowerCase()
forgotPasswordController(p, emails) ==
    /\ pc[p] = "idle"
    /\ CanIssue
    /\ \E email \in emails :
          IF email = noEmail
          THEN Reject(p, "forgotPassword", fail(400, <<"Email is required">>))
          ELSE IF ~emailRegexTest(email)
          THEN Reject(p, "forgotPassword", forgotPasswordCatch(<<"Invalid email format">>))
          ELSE Goto(p, "fp_getUser",
                    [IdleLoc EXCEPT !.op = "forgotPassword",
                                    !.email = normalizeEmail(email)])
    /\ UNCHANGED <<users, nextUserId, otps, nextId, now, ticks, env>>

\* what forgotPassword answers when no account has the email
forgotPasswordNotFound ==
    ok(200, "If an account with this email exists, a password reset code has been sent.")

\* sensitivity variant for C8: forgotPassword without the "if (!user)" return
forgotPasswordAlwaysIssues(p) ==
    /\ pc[p] = "fp_getUser"
    /\ \/ \E draws \in RandStreams :
             Goto(p, "pr_delete", issueLocals(loc[p], loc[p].email, draws))
       \/ (\E m \in DbErrorMessages : Throw(p, m))
    /\ UNCHANGED <<users, nextUserId, otps, nextId, now, ticks, env>>

\* forgotPassword resumes with the result of getUserByEmail
forgotPassword(p) ==
    /\ pc[p] = "fp_getUser"
    /\ \/ /\ getUserByEmail(users, loc[p].email) = NoUser
          /\ Respond(p, forgotPasswordNotFound)
          /\ sentMail' = NoMail
       \/ /\ getUserByEmail(users, loc[p].email) # NoUser
          /\ \E draws \in RandStreams :
                Goto(p, "pr_delete", issueLocals(loc[p], loc[p].email, draws))
       \/ (\E m \in DbErrorMessages : Throw(p, m))
    /\ UNCHANGED <<users, nextUserId, otps, nextId, now, ticks, env>>

(***************************************************************************)
(* POST /auth/reset-password                                               *)
(***************************************************************************)
\* sensitivity variant for C13: resetPassword without the check of newPassword.length
resetPasswordControllerAnyLength(p, emails, codes, passwords) ==
    /\ pc[p] = "idle"
    /\ \E email \in emails : \E otp \in codes : \E newPassword \in passwords :
          IF email = noEmail \/ otp = NoCode \/ newPassword = ""
          THEN Reject(p, "resetPassword",
                      fail(400, <<"Email, OTP, and new password are required">>))
          ELSE IF ~emailRegexTest(email)
          THEN Reject(p, "resetPassword", resetPasswordCatch(<<"Invalid email format">>))
          ELSE Goto(p, "rp_getUser",
                    [IdleLoc EXCEPT !.op = "resetPassword",
                                    !.email = normalizeEmail(email),
                                    !.otp = otp, !.newPassword = newPassword])
    /\ UNCHANGED <<users, nextUserId, otps, nextId, now, ticks, env>>

\* the request arrives: resetPasswordController and resetPassword up to the first await
resetPasswordController(p, emails, codes, passwords) ==
    /\ pc[p] = "idle"
    /\ \E email \in emails : \E otp \in codes : \E newPassword \in passwords :
          IF email = noEmail \/ otp = NoCode \/ newPassword = ""
          THEN Reject(p, "resetPassword",
                      fail(400, <<"Email, OTP, and new password are required">>))
          ELSE IF ~emailRegexTest(email)
          THEN Reject(p, "resetPassword", resetPasswordCatch(<<"Invalid email format">>))
          ELSE IF Len(newPassword) < 6
          THEN Reject(p, "resetPassword",
                      resetPasswordCatch(<<"Password must be at least 6 characters long">>))
          ELSE Goto(p, "rp_getUser",
                    [IdleLoc EXCEPT !.op = "resetPassword",
                                    !.email = normalizeEmail(email),
                                    !.otp = otp, !.newPassword = newPassword])
    /\ UNCHANGED <<users, nextUserId, otps, nextId, now, ticks, env>>

\* sensitivity variant for C17: resetPassword that verifies the code before it
\* looks at the result of the account lookup
resetPasswordVerifiesFirst(p) ==
    \/ /\ pc[p] = "rp_getUser"
       /\ \/ Goto(p, "vp_get", [loc[p] EXCEPT !.svcEmail = loc[p].email])
          \/ (\E m \in DbErrorMessages : Throw(p, m))
       /\ UNCHANGED <<users, nextUserId, otps, nextId, now, ticks, env>>
    \/ /\ pc[p] = "rp_update"
       /\ \/ /\ \E salt \in genSalt(users, loc[p].email) :
                   users' = updatePassword(users, loc[p].email,
                                           bcryptHash(loc[p].newPassword, salt))
             /\ IF affectedRows(users, loc[p].email) > 0
                THEN /\ Respond(p, ok(200, "Password reset successfully. You can now login with your new password."))
                     /\ sentMail' = NoMail
                ELSE Throw(p, <<"Failed to update password">>)
          \/ /\ (\E m \in DbErrorMessages : Throw(p, m))
             /\ UNCHANGED <<users, nextUserId>>
       /\ UNCHANGED <<nextUserId, otps, nextId, now, ticks, env>>

resetPassword(p) ==
    \/ /\ pc[p] = "rp_getUser"
       /\ \/ /\ getUserByEmail(users, loc[p].email) = NoUser
             /\ Throw(p, <<"User not found">>)
          \/ /\ getUserByEmail(users, loc[p].email) # NoUser
             /\ Goto(p, "vp_get", [loc[p] EXCEPT !.svcEmail = loc[p].email])
          \/ (\E m \in DbErrorMessages : Throw(p, m))
       /\ UNCHANGED <<users, nextUserId, otps, nextId, now, ticks, env>>
    \/ /\ pc[p] = "rp_update"
       /\ \/ /\ \E salt \in genSalt(users, loc[p].email) :
                   users' = updatePassword(users, loc[p].email,
                                           bcryptHash(loc[p].newPassword, salt))
             /\ IF affectedRows(users, loc[p].email) > 0
                THEN /\ Respond(p, ok(200, "Password reset successfully. You can now login with your new password."))
                     /\ sentMail' = NoMail
                ELSE Throw(p, <<"Failed to update password">>)
          \/ /\ (\E m \in DbErrorMessages : Throw(p, m))
             /\ UNCHANGED <<users, nextUserId>>
       /\ UNCHANGED <<nextUserId, otps, nextId, now, ticks, env>>

(***************************************************************************)
(* POST /otp/send-verification                                             *)
(***************************************************************************)
\* sensitivity variant for C33: sendVerificationOTP without the check of
\* email_verified
sendVerificationOTPAnyAccount(p, emails) ==
    \/ /\ pc[p] = "idle"
       /\ CanIssue
       /\ \E email \in emails :
             IF email = noEmail
             THEN Reject(p, "sendVerificationOTP", fail(400, <<"Email is required">>))
             ELSE Goto(p, "sv_getUser",
                       [IdleLoc EXCEPT !.op = "sendVerificationOTP", !.email = email])
       /\ UNCHANGED <<users, nextUserId, otps, nextId, now, ticks, env>>
    \/ /\ pc[p] = "sv_getUser"
       /\ LET user == getUserByEmail(users, loc[p].email)
          IN  \/ /\ user = NoUser
                 /\ Respond(p, fail(404, <<"User not found">>))
                 /\ sentMail' = NoMail
              \/ /\ user # NoUser
                 /\ \E draws \in RandStreams :
                       Goto(p, "ev_delete", issueLocals(loc[p], loc[p].email, draws))
              \/ (\E m \in DbErrorMessages : Throw(p, m))
       /\ UNCHANGED <<users, nextUserId, otps, nextId, now, ticks, env>>

sendVerificationOTP(p, emails) ==
    \/ /\ pc[p] = "idle"
       /\ CanIssue
       /\ \E email \in emails :
             IF email = noEmail
             THEN Reject(p, "sendVerificationOTP", fail(400, <<"Email is required">>))
             ELSE Goto(p, "sv_getUser",
                       [IdleLoc EXCEPT !.op = "sendVerificationOTP", !.email = email])
       /\ UNCHANGED <<users, nextUserId, otps, nextId, now, ticks, env>>
    \/ /\ pc[p] = "sv_getUser"
       /\ LET user == getUserByEmail(users, loc[p].email)
          IN  \/ /\ user = NoUser
                 /\ Respond(p, fail(404, <<"User not found">>))
                 /\ sentMail' = NoMail
              \/ /\ user # NoUser
                 /\ user.email_verified
                 /\ Respond(p, fail(400, <<"Email is already verified">>))
                 /\ sentMail' = NoMail
              \/ /\ user # NoUser
                 /\ ~user.email_verified
                 /\ \E draws \in RandStreams :
                       Goto(p, "ev_delete", issueLocals(loc[p], loc[p].email, draws))
              \/ (\E m \in DbErrorMessages : Throw(p, m))
       /\ UNCHANGED <<users, nextUserId, otps, nextId, now, ticks, env>>

(***************************************************************************)
(* POST /otp/verify-email                                                  *)
(***************************************************************************)
\* sensitivity variant for C21: verifyEmail without the call of verifyEmailOTP
verifyEmailUnchecked(p, emails, codes) ==
    \/ /\ pc[p] = "idle"
       /\ \E email \in emails : \E otp \in codes :
             IF email = noEmail \/ otp = NoCode
             THEN Reject(p, "verifyEmail", fail(400, <<"Email and OTP are required">>))
             ELSE Goto(p, "vm_getUser",
                       [IdleLoc EXCEPT !.op = "verifyEmail", !.email = email, !.otp = otp])
       /\ UNCHANGED <<users, nextUserId, otps, nextId, now, ticks, env>>
    \/ /\ pc[p] = "vm_getUser"
       /\ LET user == getUserByEmail(users, loc[p].email)
          IN  \/ /\ user = NoUser
                 /\ Respond(p, fail(404, <<"User not found">>))
                 /\ sentMail' = NoMail
              \/ /\ user # NoUser
                 /\ user.email_verified
                 /\ Respond(p, fail(400, <<"Email is already verified">>))
                 /\ sentMail' = NoMail
              \/ /\ user # NoUser
                 /\ ~user.email_verified
                 /\ Goto(p, "vm_update", [loc[p] EXCEPT !.svcEmail = loc[p].email,
                                                     !.username = user.username])
              \/ (\E m \in DbErrorMessages : Throw(p, m))
       /\ UNCHANGED <<users, nextUserId, otps, nextId, now, ticks, env>>
    \/ /\ pc[p] = "vm_update"
       /\ \/ /\ users' = verifyUserEmail(users, loc[p].email)
             /\ Goto(p, "vm_welcome", loc[p])
          \/ /\ (\E m \in DbErrorMessages : Throw(p, m))
             /\ UNCHANGED <<users, nextUserId>>
       /\ UNCHANGED <<nextUserId, otps, nextId, now, ticks, env>>
    \/ /\ pc[p] = "vm_welcome"
       /\ \/ sentMail' = [kind |-> "sendWelcomeEmail", to |-> loc[p].email,
                          username |-> loc[p].username]
          \/ sentMail' = NoMail
       /\ Respond(p, ok(200, "Email verified successfully")
                         @@ [data |-> [email |-> loc[p].email, verified |-> TRUE]])
       /\ UNCHANGED <<users, nextUserId, otps, nextId, now, ticks, env>>

verifyEmail(p, emails, codes) ==
    \/ /\ pc[p] = "idle"
       /\ \E email \in emails : \E otp \in codes :
             IF email = noEmail \/ otp = NoCode
             THEN Reject(p, "verifyEmail", fail(400, <<"Email and OTP are required">>))
             ELSE Goto(p, "vm_getUser",
                       [IdleLoc EXCEPT !.op = "verifyEmail", !.email = email, !.otp = otp])
       /\ UNCHANGED <<users, nextUserId, otps, nextId, now, ticks, env>>
    \/ /\ pc[p] = "vm_getUser"
       /\ LET user == getUserByEmail(users, loc[p].email)
          IN  \/ /\ user = NoUser
                 /\ Respond(p, fail(404, <<"User not found">>))
                 /\ sentMail' = NoMail
              \/ /\ user # NoUser
                 /\ user.email_verified
                 /\ Respond(p, fail(400, <<"Email is already verified">>))
                 /\ sentMail' = NoMail
              \/ /\ user # NoUser
                 /\ ~user.email_verified
                 /\ Goto(p, "ve_get", [loc[p] EXCEPT !.svcEmail = loc[p].email,
                                                     !.username = user.username])
              \/ (\E m \in DbErrorMessages : Throw(p, m))
       /\ UNCHANGED <<users, nextUserId, otps, nextId, now, ticks, env>>
    \/ /\ pc[p] = "vm_update"
       /\ \/ /\ users' = verifyUserEmail(users, loc[p].email)
             /\ Goto(p, "vm_welcome", loc[p])
          \/ /\ (\E m \in DbErrorMessages : Throw(p, m))
             /\ UNCHANGED <<users, nextUserId>>
       /\ UNCHANGED <<nextUserId, otps, nextId, now, ticks, env>>
    \/ /\ pc[p] = "vm_welcome"
       /\ \/ sentMail' = [kind |-> "sendWelcomeEmail", to |-> loc[p].email,
                          username |-> loc[p].username]
          \/ sentMail' = NoMail
       /\ Respond(p, ok(200, "Email verified successfully")
                         @@ [data |-> [email |-> loc[p].email, verified |-> TRUE]])
       /\ UNCHANGED <<users, nextUserId, otps, nextId, now, ticks, env>>

(***************************************************************************)
(* POST /auth/signup                                                       *)
(***************************************************************************)
\* the request arrives: signup and registerUser up to the first await
signup(p, names, emails, passwords) ==
    /\ pc[p] = "idle"
    /\ CanIssue
    /\ CanRegister
    /\ \E username \in names : \E email \in emails : \E password \in passwords :
          IF username = noName \/ email = noEmail \/ password = ""
          THEN Reject(p, "signup",
                      fail(400, <<"Username, email, and password are required">>))
          ELSE IF ~emailRegexTest(email)
          THEN Reject(p, "signup", signupCatch(<<"Invalid email format">>))
          ELSE IF Len(username) < 3
          THEN Reject(p, "signup",
                      signupCatch(<<"Username must be at least 3 characters long">>))
          ELSE IF Len(password) < 6
          THEN Reject(p, "signup",
                      signupCatch(<<"Password must be at least 6 characters long">>))
          ELSE Goto(p, "ru_getEmail",
                    [IdleLoc EXCEPT !.op = "signup", !.username = username,
                                    !.email = email, !.password = password])
    /\ UNCHANGED <<users, nextUserId, otps, nextId, now, ticks, env>>

\* what signup answers once registerUser has returned the new row
registered(user) ==
    ok(201, "User registered successfully. Please check your email for verification.")
        @@ [data |-> [user |-> [id |-> user.id, username |-> user.username,
                                email |-> user.email, email_verified |-> FALSE],
                      requiresVerification |-> TRUE]]

\* sensitivity variant for C32: registerUser without the try block around the
\* call of sendEmailVerificationOTP, so that what it throws fails the sign-up
registerUserStrict(p) ==
    \/ /\ pc[p] = "ru_getEmail"
       /\ \/ /\ getUserByEmail(users, loc[p].email) # NoUser
             /\ Throw(p, <<"User with this email already exists">>)
          \/ /\ getUserByEmail(users, loc[p].email) = NoUser
             /\ Goto(p, "ru_getName", loc[p])
          \/ (\E m \in DbErrorMessages : Throw(p, m))
       /\ UNCHANGED <<users, nextUserId, otps, nextId, now, ticks, env>>
    \/ /\ pc[p] = "ru_getName"
       /\ \/ /\ getUserByUsername(users, loc[p].username) # NoUser
             /\ Throw(p, <<"User with this username already exists">>)
          \/ /\ getUserByUsername(users, loc[p].username) = NoUser
             /\ Goto(p, "ru_create", loc[p])
          \/ (\E m \in DbErrorMessages : Throw(p, m))
       /\ UNCHANGED <<users, nextUserId, otps, nextId, now, ticks, env>>
    \/ /\ pc[p] = "ru_create"
       /\ \E salt \in 1..MaxSalt :
          LET username == trim(loc[p].username)
              email == normalizeEmail(loc[p].email)
              key == duplicateKey(users, username, email)
              hash == bcryptHash(loc[p].password, salt)
          IN  \/ /\ createUserRequired(username, email, hash)
                 /\ Throw(p, <<"Username, email, and password are required">>)
                 /\ UNCHANGED <<users, nextUserId>>
              \/ /\ ~createUserRequired(username, email, hash)
                 /\ key = "none"
                 /\ users' = createUser(users, nextUserId, username, email, hash)
                 /\ nextUserId' = nextUserId + 1
                 /\ \E draws \in RandStreams :
                       Goto(p, "ru_delete",
                            [issueLocals(loc[p], email, draws)
                                EXCEPT !.newUser = [id |-> nextUserId,
                                                    username |-> username,
                                                    email |-> email]])
              \/ /\ ~createUserRequired(username, email, hash)
                 /\ key # "none"
                 /\ Throw(p, DbDuplicateEntry(key))
                 /\ nextUserId' = nextUserId + 1
                 /\ UNCHANGED users
              \/ /\ ~createUserRequired(username, email, hash)
                 /\ (\E m \in DbErrorMessages : Throw(p, m))
                 /\ UNCHANGED <<users, nextUserId>>
       /\ UNCHANGED <<otps, nextId, now, ticks, env>>
    \/ /\ pc[p] = "ru_delete"
       /\ \/ /\ otps' = deleteOTPsByEmail(otps, loc[p].svcEmail, "email_verification")
             /\ Goto(p, "ru_insert", loc[p])
          \/ /\ (\E m \in DbErrorMessages : Throw(p, <<"Failed to send OTP: ">> \o m))
             /\ UNCHANGED otps
       /\ UNCHANGED <<users, nextUserId, nextId, now, ticks, env>>
    \/ /\ pc[p] = "ru_insert"
       /\ \/ /\ otps' = createOTP(otps, nextId, loc[p].svcEmail, loc[p].otpCode,
                                    "email_verification", loc[p].expiresAt, now)
             /\ nextId' = nextId + 1
             /\ Goto(p, "ru_send", loc[p])
          \/ /\ (\E m \in DbErrorMessages : Throw(p, <<"Failed to send OTP: ">> \o m))
             /\ UNCHANGED <<otps, nextId>>
       /\ UNCHANGED <<users, nextUserId, now, ticks, env>>
    \/ /\ pc[p] = "ru_send"
       /\ \/ /\ sentMail' = [kind |-> "sendOTPEmail", to |-> loc[p].svcEmail,
                             otp |-> loc[p].otpCode]
             /\ Respond(p, registered(loc[p].newUser))
          \/ Throw(p, <<"Failed to send OTP: ", "Failed to send email: ">>
                         \o TransportErrorMessage)
       /\ UNCHANGED <<users, nextUserId, otps, nextId, now, ticks, env>>

\* registerUser from its first await on.  The call of sendEmailVerificationOTP
\* sits in a try block of its own: whatever it throws is logged and dropped.
registerUser(p) ==
    \/ /\ pc[p] = "ru_getEmail"
       /\ \/ /\ getUserByEmail(users, loc[p].email) # NoUser
             /\ Throw(p, <<"User with this email already exists">>)
          \/ /\ getUserByEmail(users, loc[p].email) = NoUser
             /\ Goto(p, "ru_getName", loc[p])
          \/ (\E m \in DbErrorMessages : Throw(p, m))
       /\ UNCHANGED <<users, nextUserId, otps, nextId, now, ticks, env>>
    \/ /\ pc[p] = "ru_getName"
       /\ \/ /\ getUserByUsername(users, loc[p].username) # NoUser
             /\ Throw(p, <<"User with this username already exists">>)
          \/ /\ getUserByUsername(users, loc[p].username) = NoUser
             /\ Goto(p, "ru_create", loc[p])
          \/ (\E m \in DbErrorMessages : Throw(p, m))
       /\ UNCHANGED <<users, nextUserId, otps, nextId, now, ticks, env>>
    \/ /\ pc[p] = "ru_create"
       /\ \E salt \in 1..MaxSalt :
          LET username == trim(loc[p].username)
              email == normalizeEmail(loc[p].email)
              key == duplicateKey(users, username, email)
              hash == bcryptHash(loc[p].password, salt)
          IN  \/ /\ createUserRequired(username, email, hash)
                 /\ Throw(p, <<"Username, email, and password are required">>)
                 /\ UNCHANGED <<users, nextUserId>>
              \/ /\ ~createUserRequired(username, email, hash)
                 /\ key = "none"
                 /\ users' = createUser(users, nextUserId, username, email, hash)
                 /\ nextUserId' = nextUserId + 1
                 /\ \E draws \in RandStreams :
                       Goto(p, "ru_delete",
                            [issueLocals(loc[p], email, draws)
                                EXCEPT !.newUser = [id |-> nextUserId,
                                                    username |-> username,
                                                    email |-> email]])
              \/ /\ ~createUserRequired(username, email, hash)
                 /\ key # "none"
                 /\ Throw(p, DbDuplicateEntry(key))
                 /\ nextUserId' = nextUserId + 1
                 /\ UNCHANGED users
              \/ /\ ~createUserRequired(username, email, hash)
                 /\ (\E m \in DbErrorMessages : Throw(p, m))
                 /\ UNCHANGED <<users, nextUserId>>
       /\ UNCHANGED <<otps, nextId, now, ticks, env>>
    \/ /\ pc[p] = "ru_delete"
       /\ \/ /\ otps' = deleteOTPsByEmail(otps, loc[p].svcEmail, "email_verification")
             /\ Goto(p, "ru_insert", loc[p])
          \/ /\ Respond(p, registered(loc[p].newUser))
             /\ sentMail' = NoMail
             /\ UNCHANGED otps
       /\ UNCHANGED <<users, nextUserId, nextId, now, ticks, env>>
    \/ /\ pc[p] = "ru_insert"
       /\ \/ /\ otps' = createOTP(otps, nextId, loc[p].svcEmail, loc[p].otpCode,
                                    "email_verification", loc[p].expiresAt, now)
             /\ nextId' = nextId + 1
             /\ Goto(p, "ru_send", loc[p])
          \/ /\ Respond(p, registered(loc[p].newUser))
             /\ sentMail' = NoMail
             /\ UNCHANGED <<otps, nextId>>
       /\ UNCHANGED <<users, nextUserId, now, ticks, env>>
    \/ /\ pc[p] = "ru_send"
       /\ \/ sentMail' = [kind |-> "sendOTPEmail", to |-> loc[p].svcEmail,
                          otp |-> loc[p].otpCode]
          \/ sentMail' = NoMail
       /\ Respond(p, registered(loc[p].newUser))
       /\ UNCHANGED <<users, nextUserId, otps, nextId, now, ticks, env>>

(***************************************************************************)
(* PUT /users/:id and DELETE /users/:id, POST /users: the routes of        *)
(* userRoutes.js, for requests that carry a valid admin token.             *)
(***************************************************************************)
\* /^[a-zA-Z0-9_]+$/ over the characters usernames and emails are built from
usernameRegexTest(s) ==
    /\ Len(s) > 0
    /\ \A i \in 1..Len(s) : s[i] \notin {" ", "@", "."}

\* SELECT id, username, email, role, email_verified, created_at FROM users WHERE id = ?
getUserById(table, id) ==
    IF \E u \in table : u.id = id
    THEN LET u == CHOOSE u \in table : u.id = id
         IN  [id |-> u.id, username |-> u.username, email |-> u.email,
              email_verified |-> u.email_verified]
    ELSE NoUser

\* UPDATE users SET username = ?, email = ?, role = ? WHERE id = ?
updateUserRow(table, id, username, email) ==
    {IF u.id = id THEN [u EXCEPT !.username = username, !.email = email] ELSE u
        : u \in table}

\* DELETE FROM users WHERE id = ?
deleteUserRow(table, id) == {u \in table : u.id # id}

\* catch block of updateUser
updateUserCatch(message) ==
    IF message = <<"User not found">> THEN fail(404, <<"User not found">>)
    ELSE IF includes(message, "Duplicate entry")
    THEN fail(409, <<"Username or email already exists">>)
    ELSE [status |-> 500, success |-> FALSE, error |-> <<"Failed to update user">>,
          message |-> message]

\* catch block of deleteUser
deleteUserCatch(message) ==
    IF message = <<"User not found">> THEN fail(404, <<"User not found">>)
    ELSE [status |-> 500, success |-> FALSE, error |-> <<"Failed to delete user">>,
          message |-> message]

\* the handler of slot p answers an admin request
Answer(p, r) ==
    /\ Respond(p, r)
    /\ sentMail' = NoMail

\* PUT /users/:id: the controller updateUser and updateUser of userService.js
updateUser(p, ids, names, emails) ==
    \/ /\ pc[p] = "idle"
       /\ \E userId \in ids : \E username \in names : \E email \in emails :
             IF userId < 1
             THEN Reject(p, "updateUser", fail(400, <<"Invalid user ID">>))
             ELSE IF username = noName /\ email = noEmail
             THEN Reject(p, "updateUser",
                         fail(400, <<"At least one field (username or email) is required for update">>))
             ELSE Goto(p, "uu_getUser",
                       [IdleLoc EXCEPT !.op = "updateUser", !.userId = userId,
                                       !.username = username, !.email = email])
       /\ UNCHANGED <<users, nextUserId, otps, nextId, now, ticks, env>>
    \/ /\ pc[p] = "uu_getUser"
       /\ LET existingUser == getUserById(users, loc[p].userId)
          IN  \/ /\ existingUser = NoUser
                 /\ Answer(p, updateUserCatch(<<"User not found">>))
              \/ /\ existingUser # NoUser
                 /\ loc[p].email # noEmail
                 /\ ~emailRegexTest(loc[p].email)
                 /\ Answer(p, updateUserCatch(<<"Invalid email format">>))
              \/ /\ existingUser # NoUser
                 /\ loc[p].email # noEmail => emailRegexTest(loc[p].email)
                 /\ loc[p].username # noName
                 /\ ~usernameRegexTest(loc[p].username)
                 /\ Answer(p, updateUserCatch(
                       <<"Username can only contain letters, numbers, and underscores">>))
              \/ /\ existingUser # NoUser
                 /\ loc[p].email # noEmail => emailRegexTest(loc[p].email)
                 /\ loc[p].username # noName => usernameRegexTest(loc[p].username)
                 /\ Goto(p, "uu_update",
                         [loc[p] EXCEPT
                             !.username = IF loc[p].username # noName
                                          THEN loc[p].username ELSE existingUser.username,
                             !.email = IF loc[p].email # noEmail
                                       THEN loc[p].email ELSE existingUser.email])
              \/ (\E m \in DbErrorMessages : Answer(p, updateUserCatch(m)))
       /\ UNCHANGED <<users, nextUserId, otps, nextId, now, ticks, env>>
    \/ /\ pc[p] = "uu_update"
       /\ LET key == duplicateKey({u \in users : u.id # loc[p].userId},
                                   loc[p].username, loc[p].email)
              matched == \E u \in users : u.id = loc[p].userId
          IN  \/ /\ matched /\ key # "none"
                 /\ Answer(p, updateUserCatch(DbDuplicateEntry(key)))
                 /\ UNCHANGED users
              \/ /\ ~matched \/ key = "none"
                 /\ users' = updateUserRow(users, loc[p].userId, loc[p].username,
                                           loc[p].email)
                 /\ Goto(p, "uu_reread", loc[p])
              \/ /\ (\E m \in DbErrorMessages : Answer(p, updateUserCatch(m)))
                 /\ UNCHANGED users
       /\ UNCHANGED <<nextUserId, otps, nextId, now, ticks, env>>
    \/ /\ pc[p] = "uu_reread"
       /\ \/ Goto(p, "uu_return", loc[p])
          \/ (\E m \in DbErrorMessages : Answer(p, updateUserCatch(m)))
       /\ UNCHANGED <<users, nextUserId, otps, nextId, now, ticks, env>>
    \/ /\ pc[p] = "uu_return"
       /\ \/ Answer(p, ok(200, "User updated successfully")
                          @@ [data |-> getUserById(users, loc[p].userId)])
          \/ (\E m \in DbErrorMessages : Answer(p, updateUserCatch(m)))
       /\ UNCHANGED <<users, nextUserId, otps, nextId, now, ticks, env>>

\* DELETE /users/:id: the controller deleteUser and deleteUser of userService.js
deleteUser(p, ids) ==
    \/ /\ pc[p] = "idle"
       /\ \E userId \in ids :
             IF userId < 1
             THEN Reject(p, "deleteUser", fail(400, <<"Invalid user ID">>))
             ELSE Goto(p, "du_getUser",
                       [IdleLoc EXCEPT !.op = "deleteUser", !.userId = userId])
       /\ UNCHANGED <<users, nextUserId, otps, nextId, now, ticks, env>>
    \/ /\ pc[p] = "du_getUser"
       /\ \/ /\ getUserById(users, loc[p].userId) = NoUser
             /\ Answer(p, deleteUserCatch(<<"User not found">>))
          \/ /\ getUserById(users, loc[p].userId) # NoUser
             /\ Goto(p, "du_delete", loc[p])
          \/ (\E m \in DbErrorMessages : Answer(p, deleteUserCatch(m)))
       /\ UNCHANGED <<users, nextUserId, otps, nextId, now, ticks, env>>
    \/ /\ pc[p] = "du_delete"
       /\ \/ /\ users' = deleteUserRow(users, loc[p].userId)
             /\ Answer(p, ok(200, "User deleted successfully"))
          \/ /\ (\E m \in DbErrorMessages : Answer(p, deleteUserCatch(m)))
             /\ UNCHANGED users
       /\ UNCHANGED <<nextUserId, otps, nextId, now, ticks, env>>

\* POST /users: the controller createUser passes username and email only, and
\* createUser of userService.js throws for the password it does not get,
\* before any statement is sent
createUserController(p, names, emails) ==
    /\ pc[p] = "idle"
    /\ \E username \in names : \E email \in emails :
          IF username = noName \/ email = noEmail
          THEN Reject(p, "createUser", fail(400, <<"Username and email are required">>))
          ELSE Reject(p, "createUser",
                      [status |-> 500, success |-> FALSE,
                       error |-> <<"Failed to create user">>,
                       message |-> <<"Username, email, and password are required">>])
    /\ UNCHANGED <<users, nextUserId, otps, nextId, now, ticks, env>>

\* what an admin sends: the id of the account seeded unverified, the first id
\* a sign-up gets, and no id; the username of another account, one with a
\* space, or none; a free email, a malformed one, or none
\* the requests of an admin, from their arrival on
adminRoutes(p) ==
    \/ updateUser(p, {0, 3, firstUserId}, {noName, johnName, janePadded},
                  {noEmail, bobEmail, badEmail})
    \/ deleteUser(p, {0, 3, firstUserId})
    \/ createUserController(p, {noName, johnName}, {noEmail, bobEmail})

(***************************************************************************)
(* Time.                                                                  *)
(***************************************************************************)
Tick ==
    /\ ticks < MaxTicks
    /\ \E d \in {1, 10} : now' = now + d
    /\ ticks' = ticks + 1
    /\ lastResp' = NoResp
    /\ sentMail' = NoMail
    /\ UNCHANGED <<users, nextUserId, otps, nextId, env, pc, loc>>

(***************************************************************************)
(* Specifications.                                                         *)
(***************************************************************************)
\* router.post(path, limiter, handler): the limiter's store counts the request
\* of the address, and the handler runs unless the count is over max.  An
\* address sends no further request once one of its requests was blocked in
\* the window.
mounted(p, ip, name, op, handler) ==
    /\ pc[p] = "idle"
    /\ \/ limiter[<<name, ip>>].hits < limiterMax(name) + MaxOver
       \/ limiter[<<name, ip>>].resetTime <= now
    /\ limiter' = hit(limiter, <<name, ip>>, now,
                   IF name = "signupLimiter" THEN 60 ELSE windowMinutes)
    /\ IF limiter'[<<name, ip>>].hits > limiterMax(name)
       THEN /\ Reject(p, op, tooMany(name))
            /\ UNCHANGED <<users, nextUserId, otps, nextId, now, ticks, env>>
       ELSE handler

\* the first address sends requests until one is blocked, every other
\* address sends MaxGuest requests in a window
Budget(ip, name) ==
    \/ ip = 1
    \/ limiter[<<name, ip>>].hits < MaxGuest
    \/ limiter[<<name, ip>>].resetTime <= now

\* router.post('/forgot-password', otpLimiter, forgotPasswordController)
postForgotPassword(p, ips, emails) ==
    /\ \E ip \in ips :
          Budget(ip, "otpLimiter") /\
          mounted(p, ip, "otpLimiter", "forgotPassword",
                  forgotPasswordController(p, emails))
    /\ UNCHANGED routeLog

\* router.post('/reset-password', otpLimiter, resetPasswordController)
postResetPassword(p, ips, emails, codes, passwords) ==
    /\ \E ip \in ips :
          Budget(ip, "otpLimiter") /\
          mounted(p, ip, "otpLimiter", "resetPassword",
                  resetPasswordController(p, emails, codes, passwords))
    /\ UNCHANGED routeLog

\* router.post('/signup', signupLimiter, signup)
postSignup(p, ips, names, emails, passwords) ==
    /\ \E ip \in ips :
          Budget(ip, "signupLimiter") /\
          mounted(p, ip, "signupLimiter", "signup",
                  signup(p, names, emails, passwords))
    /\ UNCHANGED routeLog

\* a step of a request in flight, or the arrival of a request on a route
\* that no limiter is mounted on
free(step) == step /\ UNCHANGED <<limiter, routeLog>>

\* the address the requests come from where one address is enough
Clients == {1}

\* a new request takes the lowest free slot
FreeSlot(p) == pc[p] = "idle" /\ \A q \in Procs : q < p => pc[q] # "idle"

AllIdle == \A q \in Procs : pc[q] = "idle"

\* inputs of well-formed requests: both spellings of the account's address, an
\* address without account, the codes the generator can produce, a valid password
ValidEmails == {janeEmail, janeUpper, bobEmail}
GenCodes == {generateOTP(otpLength, d) : d \in RandStreams}
\* one of the codes the generator can produce
LimiterCodes == {generateOTP(otpLength, d) : d \in {[i \in 1..10 |-> 0]}}
ValidPasswords == {"newpass1"}

\* the default deployment: neither OTP_LENGTH nor OTP_EXPIRES_IN is set
InitDefault == Init /\ env = defaultEnv

\* Spec: the password-reset workflow under concurrent, well-formed requests
\* of one address, while an admin deletes the account
ResetResume(p) ==
    \/ forgotPassword(p)
    \/ resetPassword(p)
    \/ sendPasswordResetOTP(p)
    \/ verifyPasswordResetOTP(p)

Next ==
    \/ \E p \in Procs : FreeSlot(p) /\ postForgotPassword(p, Clients, ValidEmails)
    \/ \E p \in Procs :
          FreeSlot(p) /\ postResetPassword(p, Clients, ValidEmails, GenCodes, ValidPasswords)
    \/ \E p \in Procs : pc[p] # "idle" /\ free(ResetResume(p))
    \/ \E p \in Procs :
          /\ pc[p] # "idle" \/ FreeSlot(p)
          /\ free(deleteUser(p, {3}))
    \/ free(Tick)

Spec == InitDefault /\ [][Next]_vars

\* SpecPair: the password-reset workflow under concurrent, well-formed requests
\* of two addresses
NextPair ==
    \/ \E p \in Procs : FreeSlot(p) /\ postForgotPassword(p, IPs, ValidEmails)
    \/ \E p \in Procs :
          FreeSlot(p) /\ postResetPassword(p, IPs, ValidEmails, GenCodes, ValidPasswords)
    \/ \E p \in Procs : pc[p] # "idle" /\ free(ResetResume(p))
    \/ free(Tick)

SpecPair == InitDefault /\ [][NextPair]_vars

\* SpecSignup: registration under concurrent requests of one address with any
\* input, while an admin deletes the seeded account or the first new one
NextSignup ==
    \/ \E p \in Procs :
          /\ FreeSlot(p)
          /\ postSignup(p, Clients,
                        {janeName, <<"J", "x", "y">>, janePadded, bobName,
                         <<"b", "x">>, <<" ", " ", " ">>, noName},
                        EmailInputs, PasswordInputs)
    \/ \E p \in Procs : pc[p] # "idle" /\ free(registerUser(p))
    \/ \E p \in Procs :
          /\ pc[p] # "idle" \/ FreeSlot(p)
          /\ free(deleteUser(p, {3, firstUserId}))

SpecSignup == InitDefault /\ [][NextSignup]_vars

\* SpecSeq: the routes of the OTP workflow with any input and the deletion of
\* the account by an admin, in every environment, one request at a time: a
\* request arrives only when no other is in flight.  The code varies in the
\* requests for the account's address, the address in the requests with one
\* code; the short password comes with the account's address and that code.
NextSeq ==
    \/ \E p \in Procs :
          /\ AllIdle /\ FreeSlot(p)
          /\ \/ postForgotPassword(p, Clients, EmailInputs)
             \/ postResetPassword(p, Clients, {janeEmail, janeUpper}, CodeInputs,
                                  ValidPasswords)
             \/ postResetPassword(p, Clients, EmailInputs, LimiterCodes, ValidPasswords)
             \/ postResetPassword(p, Clients, {janeEmail}, LimiterCodes, PasswordInputs)
             \/ free(sendVerificationOTP(p, EmailInputs))
             \/ free(verifyEmail(p, {janeEmail, janeUpper}, CodeInputs))
             \/ free(verifyEmail(p, EmailInputs, LimiterCodes))
             \/ free(deleteUser(p, {3}))
    \/ \E p \in Procs :
          /\ pc[p] # "idle"
          /\ free(\/ ResetResume(p)
                  \/ sendVerificationOTP(p, {})
                  \/ verifyEmail(p, {}, {})
                  \/ sendEmailVerificationOTP(p)
                  \/ verifyEmailOTP(p)
                  \/ deleteUser(p, {}))
    \/ free(Tick)

SpecSeq == Init /\ [][NextSeq]_vars

\* SpecCross: the password-reset routes for two accounts and the routes of
\* the admin, one request at a time, in the default deployment
\* the row of john_doe inserted by the schema script: email verified
seedJohn == [id |-> 2, username |-> johnName, email |-> johnEmail,
             password |-> seedPassword, email_verified |-> TRUE]

InitCross ==
    /\ users = seedUsers \cup {seedJohn}
    /\ otps = {}
    /\ nextId = 1
    /\ nextUserId = firstUserId
    /\ sentMail = NoMail
    /\ now = 0
    /\ ticks = 0
    /\ env = defaultEnv
    /\ pc = [p \in Procs |-> "idle"]
    /\ loc = [p \in Procs |-> IdleLoc]
    /\ lastResp = NoResp
    /\ limiter = [k \in Limiters \X IPs |-> NoHits]
    /\ routeLog = [k \in IPs \X RouteGroups |-> NoHits]


NextCross ==
    \/ \E p \in Procs :
          /\ AllIdle /\ FreeSlot(p)
          /\ \/ postForgotPassword(p, Clients, {janeEmail, johnEmail})
             \/ postResetPassword(p, Clients, {janeEmail, johnEmail}, GenCodes, PasswordInputs)
             \/ free(adminRoutes(p))
    \/ \E p \in Procs : pc[p] # "idle" /\ free(ResetResume(p) \/ adminRoutes(p))
    \/ free(Tick)

SpecCross == InitCross /\ [][NextCross]_vars

\* SpecLive: the password-reset routes, one request at a time, in every
\* environment, with a clock that keeps advancing.  forgotPassword computes
\* expiresAt only while the expiry lies within the readings the clock can reach.
CanExpire == now + expiresInMinutes <= MaxClock

ClockTick ==
    /\ \E d \in {1, 10} : now + d <= MaxClock /\ now' = now + d
    /\ lastResp' = NoResp
    /\ sentMail' = NoMail
    /\ UNCHANGED <<users, nextUserId, otps, nextId, ticks, env, pc, loc, limiter, routeLog>>

NextLive ==
    \/ \E p \in Procs :
          /\ AllIdle /\ FreeSlot(p)
          /\ \/ CanExpire /\ postForgotPassword(p, Clients, {janeEmail})
             \/ postResetPassword(p, Clients, {janeEmail}, CodeInputs, ValidPasswords)
    \/ \E p \in Procs :
          /\ pc[p] # "idle"
          /\ free(\/ CanExpire /\ forgotPassword(p)
                  \/ resetPassword(p)
                  \/ sendPasswordResetOTP(p)
                  \/ verifyPasswordResetOTP(p))
    \/ ClockTick

SpecLive == Init /\ [][NextLive]_vars /\ WF_vars(ClockTick)

\* SpecLimiter: the four routes of the OTP workflow as authRoutes.js and
\* otpRoutes.js mount them, one request at a time, from two client addresses

\* the requests counted in the windows that are open, over the keys in keys
RECURSIVE logged(_)
logged(keys) ==
    IF keys = {} THEN 0
    ELSE LET key == CHOOSE k \in keys : TRUE
         IN  routeLog[key].hits + logged(keys \ {key})

CanArrive == logged(IPs \X RouteGroups) < MaxHits

\* router.post(path, otpLimiter, handler): the store counts the request, and
\* the handler runs unless the count is over max
limited(p, ip, route, op, handler) ==
    /\ CanArrive
    /\ routeLog' = hit(routeLog, <<ip, route>>, now, windowMinutes)
    /\ mounted(p, ip, "otpLimiter", op, handler)

\* router.post(path, handler)
unlimited(p, ip, route, handler) ==
    /\ pc[p] = "idle"
    /\ CanArrive
    /\ routeLog' = hit(routeLog, <<ip, route>>, now, windowMinutes)
    /\ UNCHANGED limiter
    /\ handler

\* the clock advances by a third of the limiter's window or by a whole window
WindowTick ==
    /\ ticks < MaxWindowTicks
    /\ \E d \in {5, 15} : now' = now + d
    /\ ticks' = ticks + 1
    /\ lastResp' = NoResp
    /\ sentMail' = NoMail
    /\ limiter' = clearExpired(limiter, now')
    /\ routeLog' = clearExpired(routeLog, now')
    /\ UNCHANGED <<users, nextUserId, otps, nextId, env, pc, loc>>

NextLimiter ==
    \/ \E p \in Procs :
          /\ AllIdle /\ FreeSlot(p)
          /\ \E ip \in IPs :
                \/ limited(p, ip, "/auth/forgot-password", "forgotPassword",
                           forgotPasswordController(p, {janeEmail}))
                \/ limited(p, ip, "/auth/reset-password", "resetPassword",
                           resetPasswordController(p, {janeEmail}, LimiterCodes,
                                                   ValidPasswords))
                \/ unlimited(p, ip, "/otp", sendVerificationOTP(p, {janeEmail}))
                \/ unlimited(p, ip, "/otp", verifyEmail(p, {janeEmail}, LimiterCodes))
    \/ \E p \in Procs :
          /\ pc[p] # "idle"
          /\ free(\/ ResetResume(p)
                  \/ sendVerificationOTP(p, {})
                  \/ verifyEmail(p, {}, {})
                  \/ sendEmailVerificationOTP(p)
                  \/ verifyEmailOTP(p))
    \/ WindowTick

SpecLimiter == InitDefault /\ [][NextLimiter]_vars

(***************************************************************************)
(* Properties.                                                             *)
(***************************************************************************)
\* the purpose of the issue function slot p is in
issuing(p) == IF pc[p] \in {"pr_delete", "pr_insert", "pr_send"}
              THEN "password_reset" ELSE "email_verification"

\* slot p takes the step in which its issue function returns successfully
IssueCompletes(p) ==
    /\ pc[p] \in {"pr_send", "ev_send"}
    /\ pc'[p] = "idle"
    /\ sentMail' # NoMail

\* rows of an (email, purpose) pair, outstanding or not
rowsOf(table, email, otpType) ==
    {r \in table : sqlEq(r.email, email) /\ r.otp_type = otpType}

\* slot p takes the step in which the lookup of its verify function finds a row
LookupFinds(p) ==
    /\ pc[p] \in {"vp_get", "ve_get"}
    /\ pc'[p] \in {"vp_mark", "ve_mark"}

\* the row the lookup of slot p found
found(p) == CHOOSE r \in otps : r.id = loc'[p].rec.id

\* C1 (as stated): when an issue call that follows an earlier one for the same
\* (email, purpose) returns, the pair has exactly one outstanding record (as long
\* as the new record has not expired) and no code of a record the call deleted
\* passes the lookup of a verify call.
C1_FirstCodeFails ==
    [][\A p \in Procs : IssueCompletes(p) =>
          /\ loc[p].expiresAt > now =>
                Cardinality(Outstanding(otps', loc[p].svcEmail, issuing(p), now)) = 1
          /\ \A c \in loc[p].deleted :
                getValidOTP(otps', loc[p].svcEmail, c, issuing(p), now) = {}]_vars

\* C1 (amended): when an issue call returns, with requests served one at a time,
\* the pair has no record but the one the call inserted, unused and outstanding
\* as long as it has not expired, and a code of a record the call deleted passes
\* the lookup of a verify call only if the call generated that same code again.
C1_SecondIssueReplacesFirst ==
    [][\A p \in Procs : IssueCompletes(p) =>
          /\ Cardinality(rowsOf(otps', loc[p].svcEmail, issuing(p))) <= 1
          /\ \A r \in rowsOf(otps', loc[p].svcEmail, issuing(p)) :
                /\ r.otp_code = loc[p].otpCode
                /\ r.expires_at = loc[p].expiresAt
                /\ r.used = FALSE
          /\ loc[p].expiresAt > now =>
                Cardinality(Outstanding(otps', loc[p].svcEmail, issuing(p), now)) = 1
          /\ \A c \in loc[p].deleted :
                c # loc[p].otpCode =>
                   getValidOTP(otps', loc[p].svcEmail, c, issuing(p), now) = {}]_vars

\* a second password-reset issuance has just returned: the first record is gone
\* (nothing has expired yet, so an issue call deleted it), the second is there
C1_Witness ==
    /\ lastResp.status = 200
    /\ lastResp.op = "forgotPassword"
    /\ sentMail # NoMail
    /\ nextId = 3
    /\ now = 0
    /\ Cardinality(otps) = 1
    /\ \E r \in otps : r.id = 2 /\ r.otp_code = sentMail.otp /\ r.used = FALSE

\* C2: once a verify call has consumed a record of (email, code, purpose), the
\* lookup of a verify call with the same (email, code, purpose) finds nothing but
\* a record inserted after the consumed one.
C2_NoReplay ==
    [][\A p \in Procs : LookupFinds(p) =>
          \A u \in otps :
             ( /\ u.used
               /\ sqlEq(u.email, loc[p].svcEmail)
               /\ u.otp_code = loc[p].otp
               /\ u.otp_type = found(p).otp_type )
             => found(p).id > u.id]_vars

\* C3: two verify calls that overlap in time never both return success on the
\* same record for the same (email, code).
C3_OneWinner ==
    \A p, q \in Procs :
       ( /\ p # q
         /\ pc[p] \in {"rp_update", "vm_update", "vm_welcome"}
         /\ pc[q] = pc[p]
         /\ loc[p].svcEmail = loc[q].svcEmail
         /\ loc[p].otp = loc[q].otp )
       => loc[p].rec.id # loc[q].rec.id

\* C4: in every reachable state there is at most one outstanding record per
\* (email, purpose).
C4_AtMostOneOutstanding ==
    \A email \in {janeEmail, bobEmail} : \A otpType \in {"email_verification", "password_reset"} :
       Cardinality(Outstanding(otps, email, otpType, now)) <= 1

\* C5: the lookup of a verify call never finds a record whose expires_at is not
\* later than the current time, whether the expired record is still stored or
\* not: the lookup returns the same rows on the table as it is and on the table
\* from which deleteExpiredOTPs has removed the expired rows.
C5_ExpiredNeverVerifies ==
    [][\A p \in Procs :
          /\ LookupFinds(p) => found(p).expires_at > now
          /\ pc[p] \in {"vp_get", "ve_get"} =>
                LET otpType == IF pc[p] = "vp_get" THEN "password_reset"
                               ELSE "email_verification"
                IN  validRows(deleteExpiredOTPs(otps, now), loc[p].svcEmail, loc[p].otp,
                              otpType, now)
                       = validRows(otps, loc[p].svcEmail, loc[p].otp, otpType, now)]_vars

\* a verify call presents the code of a stored, unused record that has expired
C5_Witness ==
    \E p \in Procs :
       /\ pc[p] = "vp_get"
       /\ \E r \in otps : /\ sqlEq(r.email, loc[p].svcEmail)
                          /\ r.otp_code = loc[p].otp
                          /\ r.otp_type = "password_reset"
                          /\ r.used = FALSE
                          /\ r.expires_at <= now

\* C6: the lookup of verifyEmailOTP finds email_verification records only, the
\* lookup of verifyPasswordResetOTP password_reset records only.
C6_PurposeSeparation ==
    [][\A p \in Procs : LookupFinds(p) =>
          found(p).otp_type = (IF pc[p] = "vp_get" THEN "password_reset"
                                                  ELSE "email_verification")]_vars

\* verifyEmailOTP is called with the email and code of an outstanding
\* password_reset record, and no email_verification record matches
C6_Witness ==
    \E p \in Procs :
       /\ pc[p] = "ve_get"
       /\ \E r \in Outstanding(otps, loc[p].svcEmail, "password_reset", now) :
             r.otp_code = loc[p].otp
       /\ getValidOTP(otps, loc[p].svcEmail, loc[p].otp, "email_verification", now) = {}

\* C7: every success response of the password-reset request is the response
\* given when no account has the email.
C7_SameResponse ==
    (lastResp.status = 200 /\ lastResp.op = "forgotPassword")
       => lastResp = sent(1, "forgotPassword", forgotPasswordNotFound)

\* C8: the step in which forgotPassword learns that no account has the email
\* ends the request, leaves the otps table as it was and sends no mail.
C8_NoAccountNoEffect ==
    [][\A p \in Procs :
          ( /\ pc[p] = "fp_getUser"
            /\ pc'[p] # "fp_getUser"
            /\ getUserByEmail(users, loc[p].email) = NoUser )
          => /\ pc'[p] = "idle"
             /\ otps' = otps
             /\ nextId' = nextId
             /\ sentMail' = NoMail]_vars

\* a request for an email without account has been answered while a record is stored
C8_Witness ==
    /\ lastResp.status = 200
    /\ lastResp.op = "forgotPassword"
    /\ lastResp.message = forgotPasswordNotFound.message
    /\ otps # {}
    /\ sentMail = NoMail

\* C9: with OTP_EXPIRES_IN = 0 no lookup of a verify call finds a record.
C9_ZeroWindowNeverVerifies ==
    env.OTP_EXPIRES_IN = 0 => \A p \in Procs : pc[p] \notin {"vp_mark", "ve_mark"}

\* the password column of a row of users changes in this step
passwordChanges ==
    \E u \in users : \E v \in users' : u.id = v.id /\ u.password # v.password

\* C10: the users table changes its password column only in the last step of a
\* resetPassword call, for the email of the call, after the lookup of its
\* verifyPasswordResetOTP found an outstanding password_reset record of that
\* email with the code presented, and after its markOTPAsUsed consumed that
\* record: the record was in the table, still unused, when the mark ran.
C10_ResetOnlyAfterVerify ==
    [][/\ \A p \in Procs :
          /\ (pc[p] = "vp_get" /\ pc'[p] = "vp_mark") =>
                /\ found(p) \in Outstanding(otps, loc[p].email, "password_reset", now)
                /\ found(p).otp_code = loc[p].otp
          /\ (pc[p] # "rp_update" /\ pc'[p] = "rp_update") =>
                /\ pc[p] = "vp_mark"
                /\ loc[p].rec # NoRow
                /\ \E r \in otps : /\ r.id = loc[p].rec.id
                                   /\ sqlEq(r.email, loc[p].email)
                                   /\ r.otp_type = "password_reset"
                                   /\ r.used = FALSE
                /\ otps' = markOTPAsUsed(otps, loc[p].rec.id)
                /\ loc'[p] = loc[p]
          /\ (passwordChanges /\ pc'[p] # pc[p]) =>
                /\ pc[p] = "rp_update"
                /\ loc[p].rec # NoRow
                /\ \E salt \in 1..MaxSalt :
                      users' = updatePassword(users, loc[p].email,
                                              bcryptHash(loc[p].newPassword, salt))
       /\ passwordChanges => \E p \in Procs : pc'[p] # pc[p]]_vars

\* C11: when the password update of a resetPassword call fails after its verify
\* consumed a record, the code presented passes the lookup of a retry only on a
\* record inserted after the consumed one.
C11_RetryFailsAfterFailedUpdate ==
    [][\A p \in Procs :
          (pc[p] = "rp_update" /\ pc'[p] = "idle" /\ lastResp'.status # 200) =>
             \A r \in validRows(otps', loc[p].email, loc[p].otp, "password_reset", now) :
                r.id > loc[p].rec.id]_vars

\* C12: when the dispatch of an issue call fails, with requests served one at a
\* time, the request is answered with an error, the failing step leaves the otps
\* table as it was, the pair has no record but the one the call inserted, and
\* that record, as long as it has not expired, passes the lookup of a verify
\* call presenting the call's code.
C12_DispatchFailureKeepsRecord ==
    [][\A p \in Procs :
          (pc[p] \in {"pr_send", "ev_send"} /\ pc'[p] = "idle" /\ sentMail' = NoMail) =>
          /\ lastResp'.status = 500
          /\ lastResp'.success = FALSE
          /\ otps' = otps
          /\ \A r \in rowsOf(otps', loc[p].svcEmail, issuing(p)) :
                /\ r.otp_code = loc[p].otpCode
                /\ r.expires_at = loc[p].expiresAt
                /\ r.used = FALSE
          /\ Cardinality(rowsOf(otps', loc[p].svcEmail, issuing(p))) <= 1
          /\ loc[p].expiresAt > now =>
                getValidOTP(otps', loc[p].svcEmail, loc[p].otpCode, issuing(p), now) # {}]_vars

\* the dispatch of a second password-reset issuance has just failed: the first
\* record is gone, the second is stored and outstanding
C12_Witness ==
    /\ lastResp.status = 500
    /\ lastResp.op = "forgotPassword"
    /\ includes(lastResp.message, "Failed to send password reset email: ")
    /\ nextId = 3
    /\ now = 0
    /\ Cardinality(otps) = 1
    /\ \E r \in Outstanding(otps, janeEmail, "password_reset", now) : r.id = 2

\* the errors thrown by the input validation of forgotPassword and resetPassword
ValidationErrors == {<<"Invalid email format">>,
                     <<"Password must be at least 6 characters long">>}

\* C13: a password-reset request reaches its first awaited call (the account
\* lookup) only with a well-formed email and, for resetPassword, a new password
\* of at least 6 characters; the step that answers a validation error starts no
\* awaited call, leaves the users and otps tables as they were and sends no mail.
C13_ValidationBeforeEffects ==
    [][/\ \A p \in Procs :
             (pc[p] = "idle" /\ pc'[p] \in {"fp_getUser", "rp_getUser"}) =>
                /\ emailRegexTest(loc'[p].email)
                /\ pc'[p] = "rp_getUser" => Len(loc'[p].newPassword) >= 6
       /\ ( /\ lastResp'.status = 400
            /\ lastResp'.op \in {"forgotPassword", "resetPassword"}
            /\ lastResp'.error \in ValidationErrors )
          => /\ pc' = pc
             /\ loc' = loc
             /\ users' = users
             /\ otps' = otps
             /\ nextId' = nextId
             /\ sentMail' = NoMail]_vars

\* a reset with a short password has been rejected while a code is outstanding
C13_Witness ==
    /\ lastResp.status = 400
    /\ lastResp.op = "resetPassword"
    /\ lastResp.error = <<"Password must be at least 6 characters long">>
    /\ Outstanding(otps, janeEmail, "password_reset", now) # {}

\* the purpose of the verify function slot p is in
verifying(p) == IF pc[p] \in {"vp_get", "vp_mark"}
                THEN "password_reset" ELSE "email_verification"

\* C14: the step in which the lookup of a verify call finds no record for the
\* code presented answers 400 with the generic error and leaves both tables as
\* they were: every outstanding record of the pair is still outstanding and its
\* code still passes the lookup.
C14_WrongCodeLeavesStore ==
    [][\A p \in Procs :
          (/\ pc[p] \in {"vp_get", "ve_get"}
           /\ pc'[p] = "idle"
           /\ lastResp'.error = <<"Invalid or expired OTP">>) =>
          /\ lastResp'.status = 400
          /\ otps' = otps
          /\ users' = users
          /\ nextId' = nextId
          /\ \A r \in Outstanding(otps, loc[p].svcEmail, verifying(p), now) :
                /\ r \in Outstanding(otps', loc[p].svcEmail, verifying(p), now)
                /\ getValidOTP(otps', loc[p].svcEmail, r.otp_code, verifying(p), now) # {}]_vars

\* a reset presenting a wrong code has been answered with the generic error
\* while the record of the account is outstanding
C14_Witness ==
    /\ lastResp.status = 400
    /\ lastResp.op = "resetPassword"
    /\ lastResp.error = <<"Invalid or expired OTP">>
    /\ Outstanding(otps, janeEmail, "password_reset", now) # {}

\* what a request is answered when its verify function throws the generic error
genericFailure(op) == sent(1, op, fail(400, <<"Invalid or expired OTP">>))

\* C15: a verify call that ends at its lookup, unless by a storage error, is
\* answered with one and the same response, 400 'Invalid or expired OTP',
\* whatever the otps table holds: no record of the code, a used one, an expired
\* one or one of the other purpose.
C15_GenericFailure ==
    [][\A p \in Procs :
          ( /\ pc[p] \in {"vp_get", "ve_get"}
            /\ pc'[p] = "idle"
            /\ \A m \in DbErrorMessages :
                  lastResp' # sent(p, loc[p].op, catch(loc[p].op, m)) )
          => lastResp' = genericFailure(loc[p].op)]_vars

\* a reset has been answered with the generic error while the only record of
\* the account is used and not expired
C15_Witness ==
    /\ lastResp = genericFailure("resetPassword")
    /\ Cardinality(otps) = 1
    /\ \A r \in otps : /\ r.used
                       /\ r.otp_type = "password_reset"
                       /\ r.expires_at > now

\* the text a failure response of resetPasswordController carries: the caught
\* error's message, in `message` under status 500 and in `error` otherwise
errorText(r) == IF r.status = 500 THEN r.message ELSE r.error

\* C16: every response of the reset-completion endpoint carries the status of
\* its outcome's kind: success 200; an invalid, expired or used code 400 with
\* the generic message; an absent account 404; a short password or a malformed
\* email 400; a storage failure or a failed password update 500.
C16_StatusByKind ==
    (lastResp # NoResp /\ lastResp.op = "resetPassword") =>
       IF lastResp.success
       THEN lastResp.status = 200
       ELSE /\ errorText(lastResp) \in DbErrorMessages \cup {<<"Failed to update password">>}
                 => lastResp.status = 500
            /\ errorText(lastResp) = <<"Invalid or expired OTP">> => lastResp.status = 400
            /\ errorText(lastResp) = <<"User not found">> => lastResp.status = 404
            /\ errorText(lastResp) \in ValidationErrors => lastResp.status = 400

\* the response of resetPasswordController to the error 'User not found'
userNotFound == sent(1, "resetPassword", fail(404, <<"User not found">>))

\* C17: the account lookup of resetPassword, when it answers and finds no
\* account for the email, ends the request with 404 'User not found': the
\* request never reaches verifyPasswordResetOTP or updatePassword, and the step
\* leaves the otps table (no record consumed) and the users table (no password
\* written) as they were.
C17_AbsentAccountStopsReset ==
    [][\A p \in Procs :
          ( /\ pc[p] = "rp_getUser"
            /\ pc'[p] # pc[p]
            /\ getUserByEmail(users, loc[p].email) = NoUser
            /\ \A m \in DbErrorMessages :
                  lastResp' # sent(p, "resetPassword", resetPasswordCatch(m)) )
          => /\ pc'[p] = "idle"
             /\ lastResp' = userNotFound
             /\ otps' = otps
             /\ users' = users]_vars

\* a reset request for an email without account was answered 'User not found'
\* while an unused record was in the otps table
C17_Witness ==
    /\ lastResp = userNotFound
    /\ Outstanding(otps, janeEmail, "password_reset", now) # {}

\* slot p takes the step in which its signup is refused because the email or the
\* username belongs to an account: by one of the two lookups of registerUser,
\* or by a UNIQUE key of users at the INSERT
DuplicateRefused(p) ==
    /\ pc[p] \in {"ru_getEmail", "ru_getName", "ru_create"}
    /\ pc'[p] = "idle"
    /\ ~lastResp'.success
    /\ \/ pc[p] = "ru_getEmail" /\ lastResp'.error = <<"User with this email already exists">>
       \/ pc[p] = "ru_getName" /\ lastResp'.error = <<"User with this username already exists">>
       \/ pc[p] = "ru_create" /\ \E key \in {"username", "email"} :
                                     lastResp'.error = DbDuplicateEntry(key)

\* C18: a signup that is refused because its email or username already belongs
\* to an account is answered with status 409, and the step adds no row to users.
C18_DuplicateSignupIs409 ==
    [][\A p \in Procs :
          DuplicateRefused(p) => (lastResp'.status = 409 /\ users' = users)]_vars

\* a request of address ip to the routes of group route arrives in this step
Arrives(ip, route) ==
    /\ now' = now
    /\ routeLog'[<<ip, route>>] # routeLog[<<ip, route>>]

\* the request that arrives in this step is answered by otpLimiter
Blocked == lastResp'.status = 429

\* C19: for each of /auth/forgot-password and /auth/reset-password, and every
\* client address, the first 3 requests of the address to that endpoint within
\* a window of 15 minutes are admitted, every further request to it within the
\* window is blocked, and once the window has passed requests are admitted
\* again: a request is blocked exactly when it is at least the 4th of its
\* address to its endpoint in the window.
C19_ThreePerEndpoint ==
    [][\A ip \in IPs : \A route \in {"/auth/forgot-password", "/auth/reset-password"} :
          Arrives(ip, route) =>
             (Blocked <=> routeLog'[<<ip, route>>].hits > otpLimiterMax)]_vars

\* C20: the routes under /otp pass through otpLimiter: a request of a client
\* address that is at least its 4th to these routes within a window of 15
\* minutes is blocked, so that no address gets more than 3 guesses on
\* /otp/verify-email per window.
C20_OtpRoutesLimited ==
    [][\A ip \in IPs :
          (Arrives(ip, "/otp") /\ routeLog'[<<ip, "/otp">>].hits > otpLimiterMax)
             => Blocked]_vars

\* C21: email_verified changes only from false to true, and only in the
\* verifyUserEmail step of a verifyEmail request for that account's email; a
\* request reaches that step only through verifyEmailOTP, whose lookup found an
\* unused, unexpired email_verification record of that email and code; the account is
\* verified after every verifyEmail request answered with success, and a
\* verifyEmail request answered with a failure leaves the users table as it was.
C21_VerifiedOnlyByVerify ==
    [][/\ \A u \in users : \A v \in users' :
             (v.id = u.id /\ v.email_verified # u.email_verified) =>
                /\ v.email_verified
                /\ \E p \in Procs : pc[p] = "vm_update" /\ sqlEq(loc[p].email, u.email)
       /\ \A p \in Procs :
             /\ (pc'[p] = "vm_update" /\ pc[p] # "vm_update") => pc[p] = "ve_mark"
             /\ (pc'[p] = "ve_mark" /\ pc[p] # "ve_mark") =>
                   /\ pc[p] = "ve_get"
                   /\ \E r \in otps : /\ r.id = loc'[p].rec.id
                                      /\ ~r.used
                                      /\ r.expires_at > now
                                      /\ r.otp_code = loc[p].otp
                                      /\ r.otp_type = "email_verification"
                                      /\ sqlEq(r.email, loc[p].email)
       /\ \A p \in Procs :
             (pc[p] \in {"vm_getUser", "ve_get", "ve_mark", "vm_update", "vm_welcome"} /\ pc'[p] = "idle") =>
                IF lastResp'.success
                THEN getUserByEmail(users', lastResp'.data.email).email_verified
                ELSE users' = users]_vars

\* a verifyEmail request for jane's address was answered with success
C21_Witness ==
    /\ lastResp # NoResp
    /\ lastResp.op = "verifyEmail"
    /\ lastResp.success
    /\ \E u \in users : u.email = janeEmail /\ u.email_verified

\* a record that is used, or expired at time clock
spent(r, clock) == r.used \/ r.expires_at <= clock

\* C22: a record only moves forward.  In every step a record that stays in the
\* table keeps used = TRUE once it has it, and stays spent (used or expired)
\* once it is; a row that enters the table has an id no row ever had; the
\* lookup of a verify call never returns a spent record; and the housekeeping
\* statement deleteExpiredOTPs only removes rows, every one of them spent.
C22_OnlyForward ==
    [][/\ \A r \in otps : r.id < nextId
       /\ deleteExpiredOTPs(otps, now) \subseteq otps
       /\ \A r \in otps \ deleteExpiredOTPs(otps, now) : spent(r, now)
       /\ \A r \in otps : \A q \in otps' :
             q.id = r.id => /\ r.used => q.used
                            /\ spent(r, now) => spent(q, now')
       /\ \A q \in otps' : (\A r \in otps : r.id # q.id) => q.id >= nextId
       /\ \A p \in Procs : LookupFinds(p) => ~spent(found(p), now)]_vars

\* a verify call presents the code of a stored record that is already used
C22_Witness ==
    \E p \in Procs :
       /\ pc[p] \in {"vp_get", "ve_get"}
       /\ \E r \in otps : /\ sqlEq(r.email, loc[p].svcEmail)
                          /\ r.otp_code = loc[p].otp
                          /\ r.otp_type = (IF pc[p] = "vp_get" THEN "password_reset"
                                           ELSE "email_verification")
                          /\ r.used
                          /\ r.expires_at > now

\* the record with id i is stored and a verify call presenting its email, code
\* and purpose now would get it from getValidOTP's WHERE clause
verifiable(i) ==
    \E r \in otps : /\ r.id = i
                    /\ r \in validRows(otps, r.email, r.otp_code, r.otp_type, now)

\* C23: while the clock keeps advancing, every record that is verifiable
\* becomes unverifiable for good, whether it is ever used or deleted or not.
C23_EventuallyUnverifiable ==
    \A i \in 1..MaxId : verifiable(i) ~> [](~verifiable(i))

\* a stored record was never used and has become unverifiable by the passing of time
C23_Witness ==
    \E r \in otps : ~r.used /\ r.created_at < now /\ r.id \in 1..MaxId /\ ~verifiable(r.id)

\* the value of a setting as the claim reads it: the supplied value, and the
\* default only when the variable is not set
supplied(v, dflt) == IF v = Unset THEN dflt ELSE v

\* C24: when an issue function has computed its code and expiry, the code is a
\* string of exactly OTP_LENGTH decimal digits (6 when OTP_LENGTH is not set),
\* expiresAt is the current time plus OTP_EXPIRES_IN minutes (10 when it is not
\* set) and expiresIn is that number of minutes; the record it then inserts
\* carries that code and that expiresAt.
C24_UsesSuppliedConfig ==
    [][\A p \in Procs :
          /\ (pc[p] \in {"fp_getUser", "sv_getUser"} /\ pc'[p] \in {"pr_delete", "ev_delete"}) =>
                /\ Len(loc'[p].otpCode) = supplied(env.OTP_LENGTH, 6)
                /\ \A i \in 1..Len(loc'[p].otpCode) : loc'[p].otpCode[i] \in 0..9
                /\ loc'[p].expiresIn = supplied(env.OTP_EXPIRES_IN, 10)
                /\ loc'[p].expiresAt = now + supplied(env.OTP_EXPIRES_IN, 10)
          /\ (pc[p] \in {"pr_insert", "ev_insert"} /\ pc'[p] \in {"pr_send", "ev_send"}) =>
                \E r \in otps' \ otps : /\ r.otp_code = loc[p].otpCode
                                        /\ r.expires_at = loc[p].expiresAt]_vars

\* C25: every record of the otps table carries a normalized (trimmed,
\* lower-cased) email, and every verify call looks records up by a normalized
\* email.
C25_NormalizedEmails ==
    /\ \A r \in otps : r.email = normalizeEmail(r.email)
    /\ \A p \in Procs :
          pc[p] \in {"vp_get", "ve_get"} => loc[p].svcEmail = normalizeEmail(loc[p].svcEmail)

\* C26: on every table the program can hold and for every id, markOTPAsUsed
\* applied twice gives the table it gives applied once; it sets used on the
\* record with that id and leaves every other record as it was.
C26_MarkIdempotent ==
    \A id \in 1..MaxId :
       LET once == markOTPAsUsed(otps, id)
       IN  /\ markOTPAsUsed(once, id) = once
           /\ {r \in once : r.id # id} = {r \in otps : r.id # id}
           /\ {r \in once : r.id = id} = {[r EXCEPT !.used = TRUE] : r \in {q \in otps : q.id = id}}

\* the table holds a used record, left by a markOTPAsUsed step, and an unused one
C26_Witness ==
    /\ \E r \in otps : r.used
    /\ \E r \in otps : ~r.used

\* C27: the delete step of an issue call removes every record of the call's
\* (email, purpose) and nothing else; its insert step adds one record of that
\* pair and changes nothing else; its send step leaves the table alone.  So the
\* records of every other email, and those of the same email with the other
\* purpose, are the same after the call as before it.
C27_IssueFrame ==
    [][\A p \in Procs :
          LET mine == rowsOf(otps, loc[p].svcEmail, issuing(p))
          IN  /\ (pc[p] \in {"pr_delete", "ev_delete"} /\ pc'[p] \in {"pr_insert", "ev_insert"})
                    => otps' = otps \ mine
              /\ (pc[p] \in {"pr_insert", "ev_insert"} /\ pc'[p] \in {"pr_send", "ev_send"})
                    => /\ otps \subseteq otps'
                       /\ otps' \ otps \subseteq rowsOf(otps', loc[p].svcEmail, issuing(p))
                       /\ Cardinality(otps' \ otps) = 1
              /\ (pc[p] \in {"pr_send", "ev_send"} /\ pc'[p] # pc[p])
                    => otps' = otps]_vars

\* the delete step of a password-reset issue call has run while the same email
\* has an outstanding email-verification record
C27_Witness ==
    \E p \in Procs :
       /\ pc[p] = "pr_insert"
       /\ Outstanding(otps, loc[p].svcEmail, "email_verification", now) # {}

\* C28: when the markOTPAsUsed step of a verify call runs and the call goes on
\* towards success, the record its lookup returned is still in the table, so
\* that the step flips the flag of a record that exists, also when an issue
\* call for the same (email, purpose) ran between the lookup and this step.
C28_MarkHitsRecord ==
    [][\A p \in Procs :
          (pc[p] \in {"vp_mark", "ve_mark"} /\ pc'[p] \in {"rp_update", "vm_update"})
             => \E r \in otps : r.id = loc[p].rec.id]_vars

\* C29: the lookup of a verify call returns only a record that carries the
\* email the call was made for; a password changes only in the updatePassword
\* step of a resetPassword request for that account's email; and that step is
\* reached only through a lookup and mark for the request's own email, which
\* the request keeps from its lookup to its update.
C29_NoCrossAccount ==
    [][/\ \A p \in Procs :
             /\ LookupFinds(p) => sqlEq(found(p).email, loc[p].email)
             /\ (pc'[p] = "rp_update" /\ pc[p] # "rp_update") => pc[p] = "vp_mark"
             /\ (pc'[p] = "vp_mark" /\ pc[p] # "vp_mark") => pc[p] = "vp_get"
             /\ (pc[p] \in {"vp_get", "vp_mark"} /\ pc'[p] # "idle")
                   => loc'[p].email = loc[p].email
       /\ \A u \in users : \A v \in users' :
             (v.id = u.id /\ v.password # u.password) =>
                \E p \in Procs : pc[p] = "rp_update" /\ sqlEq(loc[p].email, u.email)]_vars

\* a reset request for one account presents, at its lookup, the code of an
\* outstanding record that was issued for the other account
C29_Witness ==
    \E p \in Procs :
       /\ pc[p] = "vp_get"
       /\ \E r \in otps : /\ ~sqlEq(r.email, loc[p].email)
                          /\ r.otp_code = loc[p].otp
                          /\ r.otp_type = "password_reset"
                          /\ ~spent(r, now)
       /\ validRows(otps, loc[p].email, loc[p].otp, "password_reset", now) = {}

\* C30: when the insert step of an issue call rejects, the call fails (status
\* 500, no mail), nothing is stored, and the call's (email, purpose) has no
\* record left: the delete step before it removed them, so no code the call
\* deleted passes the lookup of a verify call.
C30_FailedInsertLeavesNothing ==
    [][\A p \in Procs :
          (pc[p] \in {"pr_insert", "ev_insert"} /\ pc'[p] = "idle") =>
             /\ lastResp'.status = 500
             /\ sentMail' = NoMail
             /\ otps' = otps
             /\ rowsOf(otps', loc[p].svcEmail, issuing(p)) = {}
             /\ \A code \in loc[p].deleted :
                   validRows(otps', loc[p].svcEmail, code, issuing(p), now') = {}]_vars

\* a second password-reset issue call has failed at its insert: the first
\* record is gone, no second one was stored, and the request was answered 500
C30_Witness ==
    /\ lastResp # NoResp
    /\ lastResp.op = "forgotPassword"
    /\ lastResp.status = 500
    /\ otps = {}
    /\ nextId = 2
    /\ now = 0

(***************************************************************************)
(* POST /auth/signin: signin of authController.js and loginUser of         *)
(* authService.js.                                                         *)
(***************************************************************************)
\* jwt.sign({ id: userId, type: 'user' }, JWT_SECRET, ...): the signed payload
generateToken(userId) == <<"jwt", [id |-> userId, type |-> "user"]>>


\* bcrypt.compare(password, hash)
bcryptCompare(password, hash) ==
    Len(hash) = 3 /\ hash[1] = "bcrypt" /\ hash[3] = password

\* const { password: _, ...userWithoutPassword } = user
userWithoutPassword(user) ==
    [id |-> user.id, username |-> user.username, email |-> user.email,
     email_verified |-> user.email_verified]

\* the 403 answer of signin to a result with requiresVerification
verifyFirst(user) ==
    [status |-> 403, success |-> FALSE, requiresVerification |-> TRUE,
     email |-> user.email,
     message |-> <<"Please verify your email before logging in. Check your email for verification code.">>,
     action |-> "verify_email"]

\* the 200 answer of signin
loggedIn(user) ==
    [status |-> 200, success |-> TRUE, message |-> <<"Login successful">>,
     data |-> [token |-> generateToken(user.id), user |-> userWithoutPassword(user)]]

\* catch block of signin
signinCatch(message) ==
    IF message = <<"Invalid credentials">>
    THEN fail(401, <<"Invalid credentials">>)
    ELSE [status |-> 500, success |-> FALSE, error |-> <<"Failed to sign in">>,
          message |-> message]


\* signin up to the call of loginUser
signin(p, emails, passwords) ==
    /\ pc[p] = "idle"
    /\ \E email \in emails, password \in passwords :
          IF email = noEmail \/ password = ""
          THEN Reject(p, "signin", fail(400, <<"Email and Password is Required">>))
          ELSE Goto(p, "li_getUser",
                    [IdleLoc EXCEPT !.op = "signin", !.email = email,
                                    !.password = password])
    /\ UNCHANGED <<users, nextUserId, otps, nextId, now, ticks, env>>

\* sensitivity variant for C31: loginUser without the check of email_verified
loginUserUnchecked(p) ==
    \/ /\ pc[p] = "li_getUser"
       /\ LET user == getUserByEmail(users, toLowerCase(trim(loc[p].email)))
          IN  \/ /\ user = EmailRequired
                 /\ Respond(p, signinCatch(user.thrown))
                 /\ sentMail' = NoMail
              \/ /\ user = NoUser
                 /\ Respond(p, signinCatch(<<"Invalid credentials">>))
                 /\ sentMail' = NoMail
              \/ /\ isRow(user)
                 /\ Goto(p, "li_compare", [loc[p] EXCEPT !.user = user])
              \/ /\ user # EmailRequired
                 /\ (\E m \in DbErrorMessages : Respond(p, signinCatch(m)))
                 /\ sentMail' = NoMail
       /\ UNCHANGED <<users, nextUserId, otps, nextId, now, ticks, env>>
    \/ /\ pc[p] = "li_compare"
       /\ LET user == loc[p].user
          IN  \/ /\ ~bcryptCompare(loc[p].password, user.password)
                 /\ Respond(p, signinCatch(<<"Invalid credentials">>))
              \/ /\ bcryptCompare(loc[p].password, user.password)
                 /\ \/ Respond(p, loggedIn(user))
                    \/ Respond(p, signinCatch(<<"secretOrPrivateKey must have a value">>))
       /\ sentMail' = NoMail
       /\ UNCHANGED <<users, nextUserId, otps, nextId, now, ticks, env>>

\* loginUser from its lookup on, and the answer signin writes for its result;
\* the required-fields check of loginUser repeats the one signin has made.
\* The call is suspended at await getUserByEmail and at await bcrypt.compare;
\* jwt.sign throws when JWT_SECRET is not set in the environment.
loginUser(p) ==
    \/ /\ pc[p] = "li_getUser"
       /\ LET user == getUserByEmail(users, toLowerCase(trim(loc[p].email)))
          IN  \/ /\ user = EmailRequired
                 /\ Respond(p, signinCatch(user.thrown))
                 /\ sentMail' = NoMail
              \/ /\ user = NoUser
                 /\ Respond(p, signinCatch(<<"Invalid credentials">>))
                 /\ sentMail' = NoMail
              \/ /\ isRow(user)
                 /\ Goto(p, "li_compare", [loc[p] EXCEPT !.user = user])
              \/ /\ user # EmailRequired
                 /\ (\E m \in DbErrorMessages : Respond(p, signinCatch(m)))
                 /\ sentMail' = NoMail
       /\ UNCHANGED <<users, nextUserId, otps, nextId, now, ticks, env>>
    \/ /\ pc[p] = "li_compare"
       /\ LET user == loc[p].user
          IN  \/ /\ ~bcryptCompare(loc[p].password, user.password)
                 /\ Respond(p, signinCatch(<<"Invalid credentials">>))
              \/ /\ bcryptCompare(loc[p].password, user.password)
                 /\ ~user.email_verified
                 /\ Respond(p, verifyFirst(user))
              \/ /\ bcryptCompare(loc[p].password, user.password)
                 /\ user.email_verified
                 /\ \/ Respond(p, loggedIn(user))
                    \/ Respond(p, signinCatch(<<"secretOrPrivateKey must have a value">>))
       /\ sentMail' = NoMail
       /\ UNCHANGED <<users, nextUserId, otps, nextId, now, ticks, env>>

\* POST /admin/login: login of adminController.js with loginAdmin of
\* adminService.js, which reads the environment and awaits no storage call
login(p, emails, passwords) ==
    /\ pc[p] = "idle"
    /\ \E email \in emails, password \in passwords :
          Reject(p, "login",
                 IF email = noEmail \/ password = ""
                 THEN fail(400, <<"Email and password are required">>)
                 ELSE IF env.ADMIN_EMAIL = noEmail \/ env.ADMIN_PASSWORD = ""
                 THEN fail(503, <<"Admin authentication is not configured">>)
                 ELSE IF email = env.ADMIN_EMAIL /\ password = env.ADMIN_PASSWORD
                 THEN [status |-> 200, success |-> TRUE,
                       message |-> <<"Admin login successful">>,
                       data |-> [admin |-> [id |-> "admin", email |-> env.ADMIN_EMAIL,
                                            role |-> "admin"],
                                 token |-> <<"jwt", [id |-> "admin", type |-> "admin"]>>]]
                 ELSE fail(401, <<"Invalid admin credentials">>))
    /\ UNCHANGED <<users, nextUserId, otps, nextId, now, ticks, env>>

\* SpecLogin: sign-in, admin login, email verification and password reset for
\* a verified and an unverified account, and the deletion of the unverified
\* one by an admin, in the default deployment.  Two requests may be in flight
\* at a time: a sign-in, an admin login and the admin's deletion arrive at any
\* time, every other request while no request but sign-ins is in flight.  The
\* row a sign-in has read may so be changed or deleted before its password is
\* compared.  Sign-in and admin login count in the one store of loginLimiter.
\* The sign-ins with the other spelling of the address, an unknown address, a
\* blank one or no password arrive while no request is in flight.

\* router.post('/signin', loginLimiter, signin)
postSignin(p, ips, emails, passwords) ==
    /\ \E ip \in ips :
          Budget(ip, "loginLimiter") /\
          mounted(p, ip, "loginLimiter", "signin", signin(p, emails, passwords))
    /\ UNCHANGED routeLog

NextLogin ==
    \/ \E p \in Procs :
          /\ FreeSlot(p)
          /\ \/ postSignin(p, Clients, {janeEmail}, {"password123", "newpass1"})
             \/ postSignin(p, Clients, {johnEmail, noEmail}, {"password123"})
             \/ AllIdle /\ postSignin(p, Clients, {janeUpper, bobEmail, <<" ">>},
                                       {"newpass1", ""})
    \/ \E p \in Procs :
          /\ FreeSlot(p)
          /\ \A q \in Procs : pc[q] \in {"idle", "li_getUser", "li_compare"}
          /\ \/ free(sendVerificationOTP(p, {janeEmail}))
             \/ free(verifyEmail(p, {janeEmail}, LimiterCodes))
             \/ postForgotPassword(p, Clients, {janeEmail})
             \/ postResetPassword(p, Clients, {janeEmail}, LimiterCodes, ValidPasswords)
    \/ \E p \in Procs :
          /\ FreeSlot(p)
          /\ \/ /\ \E ip \in Clients :
                      mounted(p, ip, "loginLimiter", "login",
                              login(p, {env.ADMIN_EMAIL}, {"AdminPassword123!"}))
                /\ UNCHANGED routeLog
             \/ free(deleteUser(p, {3}))
    \/ \E p \in Procs :
          /\ pc[p] # "idle"
          /\ free(\/ loginUser(p)
                  \/ sendEmailVerificationOTP(p)
                  \/ verifyEmailOTP(p)
                  \/ verifyEmail(p, {}, {})
                  \/ sendVerificationOTP(p, {})
                  \/ ResetResume(p)
                  \/ deleteUser(p, {}))

SpecLogin == InitCross /\ [][NextLogin]_vars

\* the response carries a token
hasToken(r) == r # NoResp /\ r.op = "signin" /\ r.status = 200

\* C31: a sign-in is answered with a token only when the account found for
\* the normalized email has the presented password and email_verified set, and
\* the token is the one of that account; when the password matches and the
\* account is not verified the answer is 403 requiresVerification without a
\* token (or a storage failure, 500); and every stored account a token in a
\* response names has email_verified set (the account the token was issued
\* for may have been deleted since the call read its row).
C31_TokenOnlyVerified ==
    [][/\ \A p \in Procs :
            (pc[p] = "li_getUser" /\ pc'[p] = "li_compare") =>
               /\ loc'[p].user = getUserByEmail(users, normalizeEmail(loc[p].email))
               /\ isRow(loc'[p].user)
       /\ \A p \in Procs :
            (pc[p] \in {"li_getUser", "li_compare"} /\ pc'[p] = "idle") =>
               LET user == loc[p].user
                   matches == /\ pc[p] = "li_compare"
                              /\ bcryptCompare(loc[p].password, user.password)
               IN  /\ hasToken(lastResp') =>
                         /\ matches
                         /\ user.email_verified
                         /\ lastResp'.data.token = generateToken(user.id)
                   /\ (matches /\ ~user.email_verified) =>
                         /\ lastResp'.status \in {403, 500}
                         /\ lastResp'.status = 403 =>
                               /\ lastResp'.requiresVerification
                               /\ lastResp'.email = user.email
                               /\ DOMAIN lastResp' \cap {"data", "token"} = {}
       /\ hasToken(lastResp') =>
             \A u \in users' : generateToken(u.id) = lastResp'.data.token
                                   => u.email_verified]_vars

\* the account seeded unverified has been verified through /otp/verify-email
\* and has then signed in: the answer carries its token
C31_Witness ==
    /\ hasToken(lastResp)
    /\ lastResp.data.token = generateToken(3)
    /\ lastResp.data.user.email = janeEmail

\* SpecRegister: sign-up and the email-verification routes for a new account,
\* and its deletion by an admin, one request at a time, in the default
\* deployment, with the clock
RegisterEmails == {bobEmail, janeEmail}

NextRegister ==
    \/ \E p \in Procs :
          /\ AllIdle /\ FreeSlot(p)
          /\ \/ postSignup(p, Clients, {bobName, janeName}, RegisterEmails, ValidPasswords)
             \/ free(sendVerificationOTP(p, RegisterEmails))
             \/ free(verifyEmail(p, RegisterEmails, GenCodes))
             \/ free(deleteUser(p, {firstUserId}))
    \/ \E p \in Procs :
          /\ pc[p] # "idle"
          /\ free(\/ registerUser(p)
                  \/ sendVerificationOTP(p, {})
                  \/ sendEmailVerificationOTP(p)
                  \/ verifyEmail(p, {}, {})
                  \/ verifyEmailOTP(p)
                  \/ deleteUser(p, {}))
    \/ free(Tick)

SpecRegister == InitDefault /\ [][NextRegister]_vars

\* the call of sendEmailVerificationOTP inside registerUser of slot p throws in
\* this step: at its delete, at its insert, or at the dispatch of the mail
RegisterIssueFails(p) ==
    /\ pc[p] \in {"ru_delete", "ru_insert", "ru_send"}
    /\ pc'[p] = "idle"
    /\ sentMail' = NoMail

\* the account stored under this email exists and is not verified
unverifiedAccount(table, email) ==
    /\ getUserByEmail(table, email) # NoUser
    /\ ~getUserByEmail(table, email).email_verified

\* C32: when the issue call inside registerUser fails at any of its three
\* steps, the sign-up is still answered 201 and the new account is stored,
\* unverified, with the hash of the password; when the failing step is the
\* dispatch, the record inserted before it is still in the table and passes
\* the lookup of a verify call until it expires; and for every account that is
\* stored unverified, /otp/send-verification goes on to issue a code and
\* /otp/verify-email goes on to its lookup (neither answers 404 or 400; only a
\* storage error stops them), and the update after a successful lookup sets
\* email_verified.
C32_SignupSurvivesIssueFailure ==
    [][\A p \in Procs :
          /\ RegisterIssueFails(p) =>
                /\ lastResp'.status = 201
                /\ lastResp'.success
                /\ ~lastResp'.data.user.email_verified
                /\ unverifiedAccount(users', loc[p].svcEmail)
                /\ bcryptCompare(loc[p].password,
                                 getUserByEmail(users', loc[p].svcEmail).password)
                /\ otps' = otps
          /\ (RegisterIssueFails(p) /\ pc[p] = "ru_send" /\ now' < loc[p].expiresAt) =>
                validRows(otps', loc[p].svcEmail, loc[p].otpCode,
                          "email_verification", now') # {}
          /\ (pc[p] = "sv_getUser" /\ unverifiedAccount(users, loc[p].email)) =>
                \/ pc'[p] = "ev_delete"
                \/ lastResp'.status = 500
                \/ pc'[p] = pc[p]
          /\ (pc[p] = "vm_getUser" /\ unverifiedAccount(users, loc[p].email)) =>
                \/ pc'[p] = "ve_get"
                \/ lastResp'.status = 500
                \/ pc'[p] = pc[p]
          /\ (pc[p] = "vm_update" /\ pc'[p] = "vm_welcome") =>
                /\ getUserByEmail(users', loc[p].email) # NoUser
                /\ getUserByEmail(users', loc[p].email).email_verified]_vars

\* a sign-up was answered 201 although the dispatch of its mail failed: the
\* new account is stored unverified, and the record of the code is in the table
\* and verifiable
C32_Witness ==
    /\ lastResp # NoResp
    /\ lastResp.op = "signup"
    /\ lastResp.status = 201
    /\ sentMail = NoMail
    /\ unverifiedAccount(users, bobEmail)
    /\ \E r \in otps : /\ sqlEq(r.email, bobEmail)
                       /\ r \in validRows(otps, bobEmail, r.otp_code,
                                          "email_verification", now)


\* slot p leaves the account lookup of sendVerificationOTP or verifyEmail in
\* this step
AccountChecked(p) == pc[p] \in {"sv_getUser", "vm_getUser"} /\ pc'[p] # pc[p]

\* C33: when the account lookup of sendVerificationOTP or verifyEmail finds no
\* account, or one that is already verified, the request ends in that step:
\* it is answered 404 'User not found', resp. 400 'Email is already verified'
\* (or 500 when the lookup itself fails), no mail is sent, and the otps table,
\* the id counter and the users table are as they were; and with one request
\* at a time, every request that is past these checks is for an account that
\* exists and is not verified.
C33_OnlyUnverifiedAccounts ==
    [][\A p \in Procs :
          LET user == getUserByEmail(users, loc[p].email)
          IN  /\ (AccountChecked(p) /\ user = NoUser) =>
                    /\ pc'[p] = "idle"
                    /\ \/ lastResp'.status = 404 /\ lastResp'.error = <<"User not found">>
                       \/ lastResp'.status = 500
                    /\ sentMail' = NoMail
                    /\ <<otps', nextId', users'>> = <<otps, nextId, users>>
              /\ (AccountChecked(p) /\ user # NoUser /\ user.email_verified) =>
                    /\ pc'[p] = "idle"
                    /\ \/ /\ lastResp'.status = 400
                          /\ lastResp'.error = <<"Email is already verified">>
                       \/ lastResp'.status = 500
                    /\ sentMail' = NoMail
                    /\ <<otps', nextId', users'>> = <<otps, nextId, users>>
              /\ pc[p] \in {"ev_delete", "ev_insert", "ev_send", "ve_get", "ve_mark", "vm_update"}
                    => unverifiedAccount(users, loc[p].email)]_vars

\* a request for a new code for the account verified before was answered 400,
\* and the used record of the verification is still in the table
C33_Witness ==
    /\ lastResp # NoResp
    /\ lastResp.op = "sendVerificationOTP"
    /\ lastResp.status = 400
    /\ \E u \in users : u.email = janeEmail /\ u.email_verified
    /\ \E r \in otps : r.otp_type = "email_verification" /\ r.used

====
